---- MODULE Spec2Model ----
(***************************************************************************)
(* Custom Component Monitor (custom_components/custom_component_monitor/   *)
(* sensor.py): the ComponentScanner, its storage reader, content           *)
(* extractors and usage resolver, and the coordinator's scan cycle.        *)
(*                                                                         *)
(* Conventions of the model                                                *)
(*   - a Python str is a sequence of one-character strings, so that        *)
(*     lower(), replace(), startswith(), split() are computed;             *)
(*   - a JSON value is a record [k |-> kind, v |-> payload]; a mapping's   *)
(*     payload is a sequence of <<key, value>> pairs with distinct keys    *)
(*     (keys are only ever compared with literals, they stay TLA+ strings);*)
(*   - a Python call that may raise returns [exc |-> BOOLEAN, val |-> _];  *)
(*   - a file of .storage is [k |-> "absent" | "unreadable" | "badjson" |  *)
(*     "json", v |-> the parsed document].                                 *)
(***************************************************************************)
EXTENDS Integers, Sequences, FiniteSets, TLC

-----------------------------------------------------------------------------
(* Python str                                                              *)

LowerMap ==
  [A |-> "a", B |-> "b", C |-> "c", D |-> "d", E |-> "e", F |-> "f", G |-> "g",
   H |-> "h", I |-> "i", J |-> "j", K |-> "k", L |-> "l", M |-> "m", N |-> "n",
   O |-> "o", P |-> "p", Q |-> "q", R |-> "r", S |-> "s", T |-> "t", U |-> "u",
   V |-> "v", W |-> "w", X |-> "x", Y |-> "y", Z |-> "z"]

LowerChar(c) == IF c \in DOMAIN LowerMap THEN LowerMap[c] ELSE c

\* str.lower()
Lower(s) == [i \in 1..Len(s) |-> LowerChar(s[i])]

\* str.replace(a, b) for one-character a and b
ReplaceChar(s, a, b) == [i \in 1..Len(s) |-> IF s[i] = a THEN b ELSE s[i]]

\* str.replace(a, "") for a one-character a
RemoveChar(s, a) == SelectSeq(s, LAMBDA c : c # a)

\* str.startswith(p)
StartsWith(s, p) == Len(s) >= Len(p) /\ SubSeq(s, 1, Len(p)) = p

\* str.endswith(p)
EndsWith(s, p) == Len(s) >= Len(p) /\ SubSeq(s, Len(s) - Len(p) + 1, Len(s)) = p

\* s[n:]
DropPrefix(s, n) == SubSeq(s, n + 1, Len(s))

\* c in s, for a one-character c
HasChar(s, c) == \E i \in 1..Len(s) : s[i] = c

\* position of the first c in s, 0 when there is none
RECURSIVE FindChar(_, _, _)
FindChar(s, c, i) ==
  IF i > Len(s) THEN 0
  ELSE IF s[i] = c THEN i
  ELSE FindChar(s, c, i + 1)

\* s.split(c)[0]
SplitFirst(s, c) ==
  LET upTo(p) == IF p = 0 THEN s ELSE SubSeq(s, 1, p - 1) IN upTo(FindChar(s, c, 1))

\* s.split(c)
RECURSIVE Split(_, _)
Split(s, c) ==
  LET at(p) == IF p = 0 THEN <<s>>
               ELSE <<SubSeq(s, 1, p - 1)>> \o Split(SubSeq(s, p + 1, Len(s)), c)
  IN at(FindChar(s, c, 1))

\* s.split(c)[-1]
SplitLast(s, c) == LET last(parts) == parts[Len(parts)] IN last(Split(s, c))

\* str.strip(chars): leading and trailing characters of the set cs removed
RECURSIVE LStrip(_, _)
LStrip(s, cs) ==
  IF Len(s) > 0 /\ s[1] \in cs THEN LStrip(Tail(s), cs) ELSE s

RECURSIVE RStrip(_, _)
RStrip(s, cs) ==
  IF Len(s) > 0 /\ s[Len(s)] \in cs THEN RStrip(SubSeq(s, 1, Len(s) - 1), cs) ELSE s

Strip(s, cs) == RStrip(LStrip(s, cs), cs)

Whitespace == {" ", "\t", "\r"}

\* a sequence without its repeated elements, first occurrences kept in order
RECURSIVE Dedup(_)
Dedup(s) ==
  IF s = <<>> THEN <<>>
  ELSE LET add(r, x) == IF \E i \in 1..Len(r) : r[i] = x THEN r ELSE Append(r, x)
       IN add(Dedup(SubSeq(s, 1, Len(s) - 1)), s[Len(s)])

SeqToSet(s) == {s[i] : i \in 1..Len(s)}

\* the concatenation of a sequence of sequences
RECURSIVE Flatten(_)
Flatten(ss) == IF ss = <<>> THEN <<>> ELSE Head(ss) \o Flatten(Tail(ss))

-----------------------------------------------------------------------------
(* JSON values                                                             *)

JNull    == [k |-> "null", v |-> 0]
JBool(b) == [k |-> "bool", v |-> b]
JNum(n)  == [k |-> "num",  v |-> n]
JStr(s)  == [k |-> "str",  v |-> s]
JList(l) == [k |-> "list", v |-> l]
JMap(m)  == [k |-> "map",  v |-> m]
JEmpty   == JMap(<<>>)

IsMap(j)  == j.k = "map"
IsList(j) == j.k = "list"
IsStr(j)  == j.k = "str"
IsNull(j) == j.k = "null"

\* j == s for a Python str literal s
StrEq(j, s) == IsStr(j) /\ j.v = s

\* Python truthiness of a JSON value
Truthy(j) ==
  CASE j.k = "null" -> FALSE
    [] j.k = "bool" -> j.v
    [] j.k = "num"  -> j.v # 0
    [] OTHER        -> Len(j.v) > 0

HasKey(m, key) == \E i \in 1..Len(m.v) : m.v[i][1] = key

\* dict.get(key, default) on a mapping
JGet(m, key, default) ==
  IF HasKey(m, key)
  THEN m.v[CHOOSE i \in 1..Len(m.v) : m.v[i][1] = key][2]
  ELSE default

\* the values of a mapping, in items() order
MapValues(m) == [i \in 1..Len(m.v) |-> m.v[i][2]]

Ok(x)  == [exc |-> FALSE, val |-> x]
Raised == [exc |-> TRUE, val |-> JNull]

-----------------------------------------------------------------------------
(* String literals of the source (L_) and names of the modelled            *)
(* installation (N_)                                                       *)

L_integration == <<"i", "n", "t", "e", "g", "r", "a", "t", "i", "o", "n">>
L_theme == <<"t", "h", "e", "m", "e">>
L_plugin == <<"p", "l", "u", "g", "i", "n">>
L_hacs == <<"h", "a", "c", "s">>
L_github == <<"h", "t", "t", "p", "s", ":", "/", "/", "g", "i", "t", "h", "u", "b", ".", "c", "o", "m", "/">>
L_unknown == <<"u", "n", "k", "n", "o", "w", "n">>
L_installed == <<"i", "n", "s", "t", "a", "l", "l", "e", "d">>
L_manual == <<"m", "a", "n", "u", "a", "l">>
L_custom_components == <<"c", "u", "s", "t", "o", "m", "_", "c", "o", "m", "p", "o", "n", "e", "n", "t", "s">>
L_themes == <<"t", "h", "e", "m", "e", "s">>
L_www == <<"w", "w", "w">>
L_community == <<"c", "o", "m", "m", "u", "n", "i", "t", "y">>
L_www_community == <<"w", "w", "w", "/", "c", "o", "m", "m", "u", "n", "i", "t", "y", "/">>
L_hacsfiles == <<"/", "h", "a", "c", "s", "f", "i", "l", "e", "s", "/">>
L_custom == <<"c", "u", "s", "t", "o", "m", ":">>
L_yaml == <<".", "y", "a", "m", "l">>
L_yml == <<".", "y", "m", "l">>
L_js == <<".", "j", "s">>
L_card == <<"-", "c", "a", "r", "d">>
L_ucard == <<"_", "c", "a", "r", "d">>
L_element == <<"-", "e", "l", "e", "m", "e", "n", "t">>
L_uelement == <<"_", "e", "l", "e", "m", "e", "n", "t">>
L_paper == <<"p", "a", "p", "e", "r", "-">>
L_ha == <<"h", "a", "-">>
L_color == <<"-", "c", "o", "l", "o", "r">>
L_docsep == <<"-", "-", "-">>
L_hacs_plugin == <<"h", "a", "c", "s", "_", "p", "l", "u", "g", "i", "n">>
L_date == <<"d", "a", "t", "e">>
N_alpha == <<"a", "l", "p", "h", "a">>
N_Alpha == <<"A", "l", "p", "h", "a">>
N_beta == <<"b", "e", "t", "a">>
N_owner_alpha == <<"o", "w", "n", "/", "a", "l", "p", "h", "a">>
N_owner_hacs == <<"h", "a", "c", "s", "/", "i", "n", "t", "e", "g", "r", "a", "t", "i", "o", "n">>
N_Dark == <<"D", "a", "r", "k">>
N_dark == <<"d", "a", "r", "k">>
N_DARK == <<"D", "A", "R", "K">>
N_owner_dark == <<"o", "w", "n", "/", "d", "a", "r", "k">>
N_themes_dark == <<"t", "h", "e", "m", "e", "s", "/", "d", "a", "r", "k">>
N_mycard == <<"m", "y", "c", "a", "r", "d">>
N_owner_mycard == <<"o", "w", "n", "/", "m", "y", "c", "a", "r", "d">>
N_www_mycard == <<"w", "w", "w", "/", "c", "o", "m", "m", "u", "n", "i", "t", "y", "/", "m", "y", "c", "a", "r", "d">>
N_my_card == <<"m", "y", "-", "c", "a", "r", "d">>
N_custom_my_card == <<"c", "u", "s", "t", "o", "m", ":", "m", "y", "-", "c", "a", "r", "d">>
N_url_mycard == <<"/", "h", "a", "c", "s", "f", "i", "l", "e", "s", "/", "m", "y", "c", "a", "r", "d", "/", "m", "y", "c", "a", "r", "d", ".", "j", "s", "?", "h", "a", "c", "s", "t", "a", "g", "=", "1">>
N_v1 == <<"1", ".", "0">>

-----------------------------------------------------------------------------
(* The .storage directory                                                  *)

\* file names of <config>/.storage/, in the order iterdir() lists them
StorageNames ==
  <<"hacs.repositories", "core.config_entries", "core.config", "auth",
    "lovelace_resources", "lovelace_dashboards", "lovelace", "lovelace.second">>

\* the characters of each file name
NameChars ==
  [n \in SeqToSet(StorageNames) |->
     CASE n = "hacs.repositories"   -> <<"h","a","c","s",".","r","e","p","o","s","i","t","o","r","i","e","s">>
       [] n = "core.config_entries" -> <<"c","o","r","e",".","c","o","n","f","i","g","_","e","n","t","r","i","e","s">>
       [] n = "core.config"         -> <<"c","o","r","e",".","c","o","n","f","i","g">>
       [] n = "auth"                -> <<"a","u","t","h">>
       [] n = "lovelace_resources"  -> <<"l","o","v","e","l","a","c","e","_","r","e","s","o","u","r","c","e","s">>
       [] n = "lovelace_dashboards" -> <<"l","o","v","e","l","a","c","e","_","d","a","s","h","b","o","a","r","d","s">>
       [] n = "lovelace"            -> <<"l","o","v","e","l","a","c","e">>
       [] n = "lovelace.second"     -> <<"l","o","v","e","l","a","c","e",".","s","e","c","o","n","d">>]

L_lovelace == <<"l","o","v","e","l","a","c","e">>

\* what a file of .storage holds
FAbsent     == [k |-> "absent",     v |-> JNull]
FUnreadable == [k |-> "unreadable", v |-> JNull]
FBadJson    == [k |-> "badjson",    v |-> JNull]
FBadUtf8    == [k |-> "badutf8",    v |-> JNull]
FJson(doc)  == [k |-> "json",       v |-> doc]

\* storage_path.exists()
FileExists(f) == f.k # "absent"

\* open(storage_path, encoding="utf-8") then json.load(f): the parsed document, or
\* the exception raised (OSError, JSONDecodeError, UnicodeDecodeError)
ReadJson(f) ==
  CASE f.k = "json"       -> [exc |-> "none", val |-> f.v]
    [] f.k = "absent"     -> [exc |-> "FileNotFoundError", val |-> JNull]
    [] f.k = "unreadable" -> [exc |-> "OSError", val |-> JNull]
    [] f.k = "badjson"    -> [exc |-> "JSONDecodeError", val |-> JNull]
    [] f.k = "badutf8"    -> [exc |-> "UnicodeDecodeError", val |-> JNull]

\* the exceptions _load_storage_file catches
LoadCaught == {"JSONDecodeError", "FileNotFoundError", "OSError"}

\* ComponentScanner._load_storage_file on the file f
LoadStorageFile(f) ==
  LET loaded(r) == IF r.exc \in LoadCaught THEN Ok(JEmpty)
                   ELSE IF r.exc # "none" THEN Raised
                   ELSE IF ~IsMap(r.val) THEN Raised      \* storage_data.get: AttributeError
                   ELSE Ok(JGet(r.val, "data", JEmpty))
  IN IF ~FileExists(f) THEN Ok(JEmpty) ELSE loaded(ReadJson(f))

\* ComponentScanner._load_hacs_repositories: the cache is [loaded, val]
LoadHacsRepositories(cache, st) ==
  LET loaded(r) == IF r.exc THEN [exc |-> TRUE, val |-> JNull, cache |-> cache]
                   ELSE [exc |-> FALSE, val |-> r.val,
                         \* "is None" is the test: a loaded None is loaded again
                         cache |-> [loaded |-> r.val.k # "null", val |-> r.val]]
  IN IF cache.loaded THEN [exc |-> FALSE, val |-> cache.val, cache |-> cache]
     ELSE loaded(LoadStorageFile(st["hacs.repositories"]))

\* a variant of KeepsDomain that keeps the domain of HACS too
KeepsEveryDomain(d) == IsStr(d) /\ Truthy(d)

\* if domain and domain != "hacs" (79): whether the set of configured domains keeps d
KeepsDomain(d) == IsStr(d) /\ Truthy(d) /\ d.v # L_hacs

\* ComponentScanner._get_configured_integrations: the set of configured domains
GetConfiguredIntegrations(st) ==
  LET dom(e) == JGet(e, "domain", JNull)
      fails(e) == \/ ~IsMap(e)                                 \* entry.get: AttributeError
                  \/ Truthy(dom(e)) /\ dom(e).k \in {"list", "map"}   \* unhashable
      domains(entries) ==
        CASE entries.k \in {"null", "bool", "num"} -> [exc |-> TRUE, val |-> {}]
          [] entries.k \in {"str", "map"} ->
               \* iterating yields str items, and str has no get
               [exc |-> Len(entries.v) > 0, val |-> {}]
          [] OTHER ->
               IF \E i \in 1..Len(entries.v) : fails(entries.v[i])
               THEN [exc |-> TRUE, val |-> {}]
               ELSE [exc |-> FALSE,
                     val |-> {dom(entries.v[i]).v :
                                i \in {j \in 1..Len(entries.v) : KeepsDomain(dom(entries.v[j]))}}]
      from(r) == IF r.exc THEN [exc |-> TRUE, val |-> {}]
                 ELSE IF ~IsMap(r.val) THEN [exc |-> TRUE, val |-> {}]
                 ELSE domains(JGet(r.val, "entries", JList(<<>>)))
  IN from(LoadStorageFile(st["core.config_entries"]))

-----------------------------------------------------------------------------
(* The configuration directory outside .storage                            *)
(*                                                                         *)
(* A filesystem is a sequence of nodes, in the order iterdir() and glob()  *)
(* list them: [path, kind, lines, js], the path relative to the            *)
(* configuration directory. Nothing exists outside that directory.         *)

L_config_dir == <<"/", "c", "o", "n", "f", "i", "g", "/">>

Slash == <<"/">>

\* Path / name
Join(a, b) == a \o Slash \o b

\* Path.exists(), is_dir(), is_file() of a path relative to the configuration directory
Exists(fsys, p) == \E i \in 1..Len(fsys) : fsys[i].path = p
IsDir(fsys, p)  == \E i \in 1..Len(fsys) : fsys[i].path = p /\ fsys[i].kind = "dir"
IsFile(fsys, p) == \E i \in 1..Len(fsys) : fsys[i].path = p /\ fsys[i].kind = "file"

NodeAt(fsys, p) == fsys[CHOOSE i \in 1..Len(fsys) : fsys[i].path = p]

\* Path.name
BaseName(p) == SplitLast(p, "/")

\* position of the last c in s, 0 when there is none
RECURSIVE FindLastChar(_, _, _)
FindLastChar(s, c, i) ==
  IF i = 0 THEN 0
  ELSE IF s[i] = c THEN i
  ELSE FindLastChar(s, c, i - 1)

\* Path.suffix: from the last dot of the name, unless the name starts or ends there
Suffix(p) ==
  LET from(n, d) == IF d > 1 /\ d < Len(n) THEN SubSeq(n, d, Len(n)) ELSE <<>>
      of(n)      == from(n, FindLastChar(n, ".", Len(n)))
  IN of(BaseName(p))

\* Path.stem
Stem(p) ==
  LET cut(n, suffix) == SubSeq(n, 1, Len(n) - Len(suffix)) IN cut(BaseName(p), Suffix(p))

\* Path.parts
Parts(p) == IF p = <<>> THEN <<>> ELSE Split(p, "/")

\* dir.iterdir(): the paths directly inside dir
IterDir(fsys, dir) ==
  LET inside(q) == /\ StartsWith(q, dir \o Slash)
                   /\ Len(q) > Len(dir) + 1
                   /\ ~HasChar(DropPrefix(q, Len(dir) + 1), "/")
      paths(idx) == [j \in 1..Len(idx) |-> fsys[idx[j]].path]
  IN paths(SelectSeq([i \in 1..Len(fsys) |-> i], LAMBDA i : inside(fsys[i].path)))

\* dir.glob("*" + ext)
Glob(fsys, dir, ext) ==
  SelectSeq(IterDir(fsys, dir), LAMBDA q : EndsWith(BaseName(q), ext))

\* Path(p).is_absolute()
IsAbsolute(p) == StartsWith(p, Slash)

\* config_dir / local_path, as [inside, rel]: whether the result lies in the
\* configuration directory, and its path relative to it (relative_to(config_dir))
Resolve(local_path) ==
  IF ~IsAbsolute(local_path) THEN [inside |-> TRUE, rel |-> local_path]
  ELSE IF StartsWith(local_path, L_config_dir) /\ Len(local_path) > Len(L_config_dir)
       THEN [inside |-> TRUE, rel |-> DropPrefix(local_path, Len(L_config_dir))]
       ELSE [inside |-> FALSE, rel |-> <<>>]

PathExists(fsys, r) == r.inside /\ Exists(fsys, r.rel)

\* ComponentScanner._get_installation_date: an ISO date, or None
GetInstallationDate(fsys, r) ==
  IF PathExists(fsys, r) THEN JStr(L_date) ELSE JNull

Rel(p) == [inside |-> TRUE, rel |-> p]

-----------------------------------------------------------------------------
(* Installed integrations                                                  *)

\* dict.get(key, "") of a metadata field that holds a string when present
GetStr(m, key) ==
  LET str(x) == IF IsStr(x) THEN x.v ELSE <<>> IN str(JGet(m, key, JStr(<<>>)))

\* a variant of IsInstalledAs that does not look at the installed flag
IsListedAs(repo, cat) == StrEq(JGet(repo, "category", JNull), cat)

\* repo_data.get("category") == cat and repo_data.get("installed", False)
IsInstalledAs(repo, cat) ==
  /\ StrEq(JGet(repo, "category", JNull), cat)
  /\ Truthy(JGet(repo, "installed", JBool(FALSE)))

\* f"https://github.com/{full_name}" if full_name else ""
RepoUrl(full_name) == IF full_name # <<>> THEN L_github \o full_name ELSE <<>>

\* the documentation URL of a repository entry
DocUrl(repo) ==
  LET doc(manifest, url) ==
        IF IsMap(manifest)
        THEN (IF HasKey(manifest, "documentation") THEN GetStr(manifest, "documentation")
              ELSE url)
        ELSE url
  IN doc(JGet(repo, "repository_manifest", JEmpty), RepoUrl(GetStr(repo, "full_name")))

\* the domain of an integration entry: its own, else its manifest's, else ""
IntegrationDomain(repo) ==
  LET domain(own, manifest) == IF own # <<>> THEN own
                               ELSE IF IsMap(manifest) THEN GetStr(manifest, "domain")
                               ELSE <<>>
  IN domain(GetStr(repo, "domain"), JGet(repo, "repository_manifest", JEmpty))

\* one entry of installed_integrations (sensor.py 653-700)
IntegrationRecord(repo, fsys) ==
  LET record(domain, full_name, name, date0, local) ==
        [domain          |-> domain,
         name            |-> IF name = <<>> THEN domain ELSE name,
         documentation   |-> DocUrl(repo),
         repository      |-> RepoUrl(full_name),
         version         |-> IF HasKey(repo, "version_installed")
                             THEN GetStr(repo, "version_installed") ELSE L_unknown,
         installed_date  |-> IF IsNull(date0) /\ local # <<>>
                             THEN GetInstallationDate(fsys, Resolve(local))
                             ELSE date0,
         hacs_repository |-> full_name,
         hacs_status     |-> L_installed]
      named(domain, manifest, name0) ==
        IF name0 = <<>> /\ IsMap(manifest)
        THEN (IF HasKey(manifest, "name") THEN GetStr(manifest, "name") ELSE domain)
        ELSE name0
      of(domain) ==
        record(domain, GetStr(repo, "full_name"),
               named(domain, JGet(repo, "repository_manifest", JEmpty), GetStr(repo, "name")),
               GetInstallationDate(fsys, Rel(Join(L_custom_components, domain))),
               GetStr(repo, "local_path"))
  IN of(IntegrationDomain(repo))

\* the entries of the metadata store a scan keeps for category cat (634-640, 730-736, 938-944)
InstalledRepos(hacs, cat) ==
  SelectSeq(MapValues(hacs), LAMBDA repo : IsMap(repo) /\ IsInstalledAs(repo, cat))

\* installed_integrations (sensor.py 632-700)
InstalledIntegrations(hacs, fsys) ==
  LET records(repos) == [i \in 1..Len(repos) |-> IntegrationRecord(repos[i], fsys)]
  IN records(SelectSeq(InstalledRepos(hacs, L_integration),
                       LAMBDA repo : IntegrationDomain(repo) # <<>>))

\* a variant of Report whose loop appends every artifact to the unused sequence
ReportWithoutElse(installed, isUsed) ==
  LET pick(b)   == SelectSeq([i \in 1..Len(installed) |-> i], LAMBDA i : isUsed[i] = b)
      part(idx) == [j \in 1..Len(idx) |-> installed[idx[j]]]
  IN [total  |-> Len(installed),
      used   |-> part(pick(TRUE)),
      unused |-> installed]

\* the used / unused partition of a scan (707-721, 917-929, 1041-1055)
\* isUsed[i] is the classification of installed[i]
Report(installed, isUsed) ==
  LET pick(b)   == SelectSeq([i \in 1..Len(installed) |-> i], LAMBDA i : isUsed[i] = b)
      part(idx) == [j \in 1..Len(idx) |-> installed[idx[j]]]
  IN [total  |-> Len(installed),
      used   |-> part(pick(TRUE)),
      unused |-> part(pick(FALSE))]

NoReport == [total |-> 0, used |-> <<>>, unused |-> <<>>]

\* a variant of IntegrationIsUsed that also counts an integration found on disk
IntegrationIsUsedOrPresent(integration, configured_domains) ==
  \/ integration.domain \in configured_domains
  \/ ~IsNull(integration.installed_date)

\* is_used = domain in configured_domains (708-710)
IntegrationIsUsed(integration, configured_domains) ==
  integration.domain \in configured_domains

\* ComponentScanner.scan_custom_integrations
ScanCustomIntegrations(cache, st, fsys) ==
  LET reported(installed, configured) ==
        Report(installed, [i \in 1..Len(installed) |->
                             IntegrationIsUsed(installed[i], configured)])
      scanned(h, c) ==
        IF h.exc \/ ~IsMap(h.val)      \* hacs_repositories.items(): AttributeError
        THEN [exc |-> TRUE, report |-> NoReport, io |-> <<>>, cache |-> h.cache]
        ELSE IF c.exc
        THEN [exc |-> TRUE, report |-> NoReport, io |-> <<>>, cache |-> h.cache]
        ELSE [exc |-> FALSE, io |-> <<>>,
              report |-> reported(InstalledIntegrations(h.val, fsys), c.val),
              cache |-> h.cache]
  IN scanned(LoadHacsRepositories(cache, st), GetConfiguredIntegrations(st))

-----------------------------------------------------------------------------
(* Theme identifiers and theme usage                                       *)

MaxThemeNameLen == 50

\* a variant of ThemeNameOfLine that takes the keys of indented lines too
ThemeNameOfLineIndented(line) ==
  LET accepted(stripped, name) ==
        IF /\ stripped # <<>>
           /\ ~StartsWith(stripped, <<"#">>)
           /\ ~StartsWith(stripped, L_docsep)
           /\ HasChar(stripped, ":")
           /\ name # <<>>
           /\ ~StartsWith(name, <<"#">>)
           /\ ~StartsWith(name, <<"-">>)
           /\ ~StartsWith(name, L_paper)
           /\ ~StartsWith(name, L_ha)
           /\ ~EndsWith(name, L_color)
           /\ Len(name) < MaxThemeNameLen
        THEN name
        ELSE <<>>
      of(stripped) ==
        accepted(stripped, Strip(Strip(SplitFirst(stripped, ":"), Whitespace), {"\"", "'"}))
  IN of(Strip(line, Whitespace))

\* the theme name a line of a definition file yields, <<>> when it yields none
\* (sensor.py 145-169)
ThemeNameOfLine(line) ==
  LET accepted(stripped, name) ==
        IF /\ stripped # <<>>
           /\ ~StartsWith(stripped, <<"#">>)
           /\ ~StartsWith(stripped, L_docsep)
           /\ ~StartsWith(line, <<" ">>)
           /\ ~StartsWith(line, <<"\t">>)
           /\ HasChar(stripped, ":")
           /\ name # <<>>
           /\ ~StartsWith(name, <<"#">>)
           /\ ~StartsWith(name, <<"-">>)
           /\ ~StartsWith(name, L_paper)
           /\ ~StartsWith(name, L_ha)
           /\ ~EndsWith(name, L_color)
           /\ Len(name) < MaxThemeNameLen
        THEN name
        ELSE <<>>
      of(stripped) ==
        accepted(stripped, Strip(Strip(SplitFirst(stripped, ":"), Whitespace), {"\"", "'"}))
  IN of(Strip(line, Whitespace))

\* theme_names of one file: the names of its lines, in order
ThemeNamesOfLines(lines) ==
  SelectSeq([i \in 1..Len(lines) |-> ThemeNameOfLine(lines[i])], LAMBDA n : n # <<>>)

\* ComponentScanner._get_theme_names_from_file on config_dir / path
GetThemeNamesFromFile(fsys, r) ==
  LET names(files) ==
        IF \E i \in 1..Len(files) : NodeAt(fsys, files[i]).bad
        THEN <<>>                      \* the read raises: except Exception, return []
        ELSE Dedup(Flatten([i \in 1..Len(files) |->
                              ThemeNamesOfLines(NodeAt(fsys, files[i]).lines)]))
  IN names(IF ~r.inside THEN <<>>
           ELSE IF IsFile(fsys, r.rel) THEN <<r.rel>>
           ELSE IF IsDir(fsys, r.rel)
                THEN Glob(fsys, r.rel, L_yaml) \o Glob(fsys, r.rel, L_yml)
                ELSE <<>>)

\* value.lower() == theme_name.lower()
SameIgnoringCase(a, b) == Lower(a) = Lower(b)

\* ComponentScanner._check_theme_in_lovelace
RECURSIVE CheckThemeInLovelace(_, _)
CheckThemeInLovelace(config, theme_name) ==
  LET same(value) == IsStr(value) /\ SameIgnoringCase(value.v, theme_name)
      direct(current_theme) ==
        /\ Truthy(current_theme)
        /\ \/ same(current_theme)
           \/ /\ IsMap(current_theme)              \* Handle theme objects
              /\ \E i \in 1..Len(current_theme.v) : same(current_theme.v[i][2])
      inView(view_theme) == Truthy(view_theme) /\ same(view_theme)
      inViews(views) ==
        /\ IsList(views)
        /\ \E i \in 1..Len(views.v) :
             IsMap(views.v[i]) /\ inView(JGet(views.v[i], "theme", JNull))
      nested(key, value) ==
        IF key = "theme" /\ IsStr(value)
        THEN SameIgnoringCase(value.v, theme_name)
        ELSE IF IsMap(value) THEN CheckThemeInLovelace(value, theme_name)
        ELSE IF IsList(value)
             THEN \E j \in 1..Len(value.v) :
                    /\ IsMap(value.v[j])
                    /\ CheckThemeInLovelace(value.v[j], theme_name)
             ELSE FALSE
  IN /\ IsMap(config)
     /\ \/ direct(JGet(config, "theme", JNull))
        \/ inViews(JGet(config, "views", JList(<<>>)))
        \/ \E i \in 1..Len(config.v) : nested(config.v[i][1], config.v[i][2])

\* storage_dir.exists(): the platform creates .storage before any component runs
StorageDirExists == TRUE

\* _get_lovelace_files of _check_theme_usage (361-366)
ThemeLovelaceFiles(st) ==
  IF ~StorageDirExists THEN <<>>
  ELSE SelectSeq(StorageNames,
                 LAMBDA n : FileExists(st[n]) /\ StartsWith(NameChars[n], L_lovelace))

\* the body of the loop over the lovelace files (374-398) for one file:
\* "T" a match, "F" no match or an exception caught and logged
ThemeInLovelaceFile(f, theme_name) ==
  LET inData(data_section) ==
        IF ~IsMap(data_section) THEN "F"
        ELSE IF \/ CheckThemeInLovelace(JGet(data_section, "config", JEmpty), theme_name)
                \/ CheckThemeInLovelace(data_section, theme_name)
             THEN "T" ELSE "F"
      inFile(r) == IF r.exc # "none" \/ ~IsMap(r.val) THEN "F"
                   ELSE inData(JGet(r.val, "data", JEmpty))
  IN inFile(ReadJson(f))

\* the loop over auth_data["users"] (350-355), from user i on: "T", "F", or "E" when it raises
RECURSIVE CheckUsers(_, _, _)
CheckUsers(users, i, theme_name) ==
  LET byTheme(user_theme) ==
        IF ~Truthy(user_theme) THEN CheckUsers(users, i + 1, theme_name)
        ELSE IF ~IsStr(user_theme) THEN "E"
        ELSE IF SameIgnoringCase(user_theme.v, theme_name) THEN "T"
        ELSE CheckUsers(users, i + 1, theme_name)
      byData(user_data) == IF ~IsMap(user_data) THEN "E"
                           ELSE byTheme(JGet(user_data, "theme", JNull))
  IN IF i > Len(users) THEN "F"
     ELSE IF ~IsMap(users[i]) THEN "E"
     ELSE byData(JGet(users[i], "user_data", JEmpty))

\* a variant of CheckDefaultTheme that takes any default theme for the theme checked
CheckDefaultThemeUncompared(st, theme_name) ==
  LET byTheme(default_theme) ==
        IF ~Truthy(default_theme) THEN "F"
        ELSE IF ~IsStr(default_theme) THEN "E"
        ELSE "T"
      byFrontend(frontend_config) == IF ~IsMap(frontend_config) THEN "E"
                                     ELSE byTheme(JGet(frontend_config, "theme", JNull))
      byCore(core_config) == IF core_config.exc \/ ~IsMap(core_config.val) THEN "E"
                             ELSE byFrontend(JGet(core_config.val, "frontend", JEmpty))
  IN byCore(LoadStorageFile(st["core.config"]))

\* the default-theme check (339-346)
CheckDefaultTheme(st, theme_name) ==
  LET byTheme(default_theme) ==
        IF ~Truthy(default_theme) THEN "F"
        ELSE IF ~IsStr(default_theme) THEN "E"
        ELSE IF SameIgnoringCase(default_theme.v, theme_name) THEN "T"
        ELSE "F"
      byFrontend(frontend_config) == IF ~IsMap(frontend_config) THEN "E"
                                     ELSE byTheme(JGet(frontend_config, "theme", JNull))
      byCore(core_config) == IF core_config.exc \/ ~IsMap(core_config.val) THEN "E"
                             ELSE byFrontend(JGet(core_config.val, "frontend", JEmpty))
  IN byCore(LoadStorageFile(st["core.config"]))

\* the user-profile check (349-355)
CheckUserThemes(st, theme_name) ==
  LET byUsers(users) ==
        CASE users.k \in {"null", "bool", "num"} -> "E"
          [] users.k \in {"str", "map"} -> IF Len(users.v) > 0 THEN "E" ELSE "F"
          [] OTHER -> CheckUsers(users.v, 1, theme_name)
      byAuth(auth_data) == IF auth_data.exc \/ ~IsMap(auth_data.val) THEN "E"
                           ELSE byUsers(JGet(auth_data.val, "users", JList(<<>>)))
  IN byAuth(LoadStorageFile(st["auth"]))

\* a loop over the lovelace files that returns at the first match: hits[i] is the
\* outcome for files[i]; [res, reads] with the files read, in order
LovelaceScan(files, hits) ==
  LET upTo(matches) ==
        IF matches = {} THEN [res |-> "F", reads |-> files]
        ELSE [res   |-> "T",
              reads |-> SubSeq(files, 1, CHOOSE i \in matches : \A j \in matches : i <= j)]
  IN upTo({i \in 1..Len(files) : hits[i] = "T"})

\* a variant of CheckThemeUsage whose loop over the lovelace files has no try / except:
\* a file that cannot be read as a JSON object ends the check with the exception
CheckThemeUsageUnguarded(st, theme_name) ==
  LET broken(n) == ReadJson(st[n]).exc # "none" \/ ~IsMap(ReadJson(st[n]).val)
      lovelace(files) ==
        LovelaceScan(files, [i \in 1..Len(files) |->
                               ThemeInLovelaceFile(st[files[i]], theme_name)])
      raised(l) == \E i \in 1..Len(l.reads) : broken(l.reads[i])
      outcome(d, u, l) ==
        IF d # "F" THEN [res |-> d, reads |-> <<"core.config">>]
        ELSE IF u # "F" THEN [res |-> u, reads |-> <<"core.config", "auth">>]
        ELSE [res   |-> IF raised(l) THEN "E" ELSE l.res,
              reads |-> <<"core.config", "auth">> \o l.reads]
  IN outcome(CheckDefaultTheme(st, theme_name), CheckUserThemes(st, theme_name),
             lovelace(ThemeLovelaceFiles(st)))

\* ComponentScanner._check_theme_usage: [res, reads], res "T", "F" or "E" (it raises),
\* reads the files of .storage it read, in order
CheckThemeUsage(st, theme_name) ==
  LET lovelace(files) ==
        LovelaceScan(files, [i \in 1..Len(files) |->
                               ThemeInLovelaceFile(st[files[i]], theme_name)])
      outcome(d, u, l) ==
        IF d # "F" THEN [res |-> d, reads |-> <<"core.config">>]
        ELSE IF u # "F" THEN [res |-> u, reads |-> <<"core.config", "auth">>]
        ELSE [res |-> l.res, reads |-> <<"core.config", "auth">> \o l.reads]
  IN outcome(CheckDefaultTheme(st, theme_name), CheckUserThemes(st, theme_name),
             lovelace(ThemeLovelaceFiles(st)))

\* the identifiers _is_theme_used checks for a theme (1063-1082)
ThemeIdentifiers(fsys, theme) ==
  LET orName(actual) == IF actual = <<>> THEN <<theme.name>> ELSE actual
  IN orName(IF theme.file # <<>> THEN GetThemeNamesFromFile(fsys, Rel(theme.file))
            ELSE IF theme.full_path # <<>>
                 THEN GetThemeNamesFromFile(fsys, Resolve(theme.full_path))
                 ELSE <<>>)

\* a variant of FirstOutcome that runs every round whatever the earlier rounds returned
FirstOutcomeOfAll(outcomes) ==
  [res   |-> IF \E i \in 1..Len(outcomes) : outcomes[i].res = "T" THEN "T"
             ELSE IF \E i \in 1..Len(outcomes) : outcomes[i].res = "E" THEN "E" ELSE "F",
   reads |-> Flatten([i \in 1..Len(outcomes) |-> outcomes[i].reads])]

\* a loop that returns (or raises) at the first outcome other than "F": outcomes[i] is
\* the [res, reads] of round i; [res, reads] of the loop
FirstOutcome(outcomes) ==
  LET upTo(stops, n) ==
        [res   |-> IF stops = {} THEN "F" ELSE outcomes[n].res,
         reads |-> Flatten([i \in 1..n |-> outcomes[i].reads])]
      at(stops) == upTo(stops, IF stops = {} THEN Len(outcomes)
                               ELSE CHOOSE i \in stops : \A j \in stops : i <= j)
  IN at({i \in 1..Len(outcomes) : outcomes[i].res # "F"})

\* ComponentScanner._is_theme_used: [res, reads]
IsThemeUsed(st, fsys, theme) ==
  LET checked(names) ==
        FirstOutcome([i \in 1..Len(names) |-> CheckThemeUsage(st, names[i])])
  IN IF theme.name = <<>> THEN [res |-> "F", reads |-> <<>>]
     ELSE checked(ThemeIdentifiers(fsys, theme))

-----------------------------------------------------------------------------
(* Installed themes                                                        *)

\* list(set(xs)): the order of a set of str is fixed within one process and unknown;
\* order is "fwd" or "rev"
ListOfSet(xs, order) ==
  LET listed(d) == IF order = "fwd" THEN d ELSE [i \in 1..Len(d) |-> d[Len(d) + 1 - i]]
  IN listed(Dedup(xs))

\* the display name of a theme or plugin entry (745-757, 953-965)
DisplayName(repo) ==
  LET shown(full_name, name) ==
        IF name = <<>> /\ full_name # <<>>
        THEN (IF HasChar(full_name, "/") THEN SplitLast(full_name, "/") ELSE full_name)
        ELSE name
      own(manifest, name0) ==
        IF IsMap(manifest) /\ name0 = <<>> THEN GetStr(manifest, "name") ELSE name0
  IN shown(GetStr(repo, "full_name"),
           own(JGet(repo, "repository_manifest", JEmpty), GetStr(repo, "name")))

\* the patterns tried under the install root when local_path gives no date (784-794, 995-1005)
NamePatterns(repo, order) ==
  LET repo_name(full_name) ==
        IF HasChar(full_name, "/") THEN SplitLast(full_name, "/") ELSE <<>>
      patterns(name, display) ==
        ListOfSet(SelectSeq(<<name, display, Lower(display)>>, LAMBDA p : p # <<>>), order)
  IN patterns(repo_name(GetStr(repo, "full_name")), DisplayName(repo))

NoLocation == [date |-> JNull, path |-> <<>>]

\* install date and path from the recorded local_path (764-777, 972-988)
LocalPathLocation(repo, fsys) ==
  LET at(local_path, r) ==
        IF local_path # <<>> /\ PathExists(fsys, r)
        THEN [date |-> GetInstallationDate(fsys, r), path |-> r.rel]
        ELSE NoLocation
      of(local_path) == at(local_path, Resolve(local_path))
  IN of(GetStr(repo, "local_path"))

\* the loop over theme_patterns (796-809), from pattern i on
RECURSIVE ThemePatternLocation(_, _, _)
ThemePatternLocation(fsys, patterns, i) ==
  IF i > Len(patterns) THEN NoLocation
  ELSE LET dir  == Join(L_themes, patterns[i])
           file == dir \o L_yaml
       IN IF IsDir(fsys, dir)
          THEN [date |-> GetInstallationDate(fsys, Rel(dir)), path |-> dir]
          ELSE IF Exists(fsys, file)
          THEN [date |-> GetInstallationDate(fsys, Rel(file)), path |-> file]
          ELSE ThemePatternLocation(fsys, patterns, i + 1)

\* install date and file of a theme entry (759-809)
ThemeLocation(repo, fsys, order) ==
  LET merged(byLocal, byName) ==
        [date |-> byName.date,
         path |-> IF IsNull(byName.date) THEN byLocal.path ELSE byName.path]
      from(byLocal) ==
        IF IsNull(byLocal.date) /\ Exists(fsys, L_themes)
        THEN merged(byLocal, ThemePatternLocation(fsys, NamePatterns(repo, order), 1))
        ELSE byLocal
  IN from(LocalPathLocation(repo, fsys))

\* one package-manager entry of installed_themes (738-821)
ThemeRecord(repo, fsys, order) ==
  LET record(loc, full_name) ==
        [name            |-> DisplayName(repo),
         file            |-> loc.path,
         full_path       |-> GetStr(repo, "local_path"),
         repository      |-> RepoUrl(full_name),
         documentation   |-> DocUrl(repo),
         installed_date  |-> loc.date,
         hacs_repository |-> full_name,
         hacs_status     |-> L_installed,
         version         |-> IF HasKey(repo, "version_installed")
                             THEN GetStr(repo, "version_installed") ELSE L_unknown]
  IN record(ThemeLocation(repo, fsys, order), GetStr(repo, "full_name"))

\* installed_themes after the loop over the metadata store (728-821)
HacsThemes(hacs, fsys, order) ==
  LET records(repos) == [i \in 1..Len(repos) |-> ThemeRecord(repos[i], fsys, order)]
  IN records(InstalledRepos(hacs, L_theme))

\* the deduplication sets of the supplementary scan (827-856)
HacsThemeNames(themes) ==
  {Lower(themes[i].name) : i \in {j \in 1..Len(themes) : themes[j].name # <<>>}}

HacsThemePaths(themes) ==
  {themes[i].file : i \in {j \in 1..Len(themes) : themes[j].file # <<>>}}

HacsRepoNames(themes) ==
  LET names(withRepo) ==
        {Lower(SplitLast(themes[i].hacs_repository, "/")) : i \in withRepo}
        \cup UNION {SeqToSet(Split(Lower(themes[i].hacs_repository), "/")) :
                      i \in {j \in withRepo : HasChar(themes[j].hacs_repository, "/")}}
  IN names({j \in 1..Len(themes) : themes[j].hacs_repository # <<>>})

HacsDirectories(themes) ==
  LET under(parts) == Len(parts) > 1 /\ parts[1] = L_themes
  IN {Lower(Parts(themes[i].file)[2]) :
        i \in {j \in 1..Len(themes) : /\ themes[j].file # <<>>
                                       /\ under(Parts(themes[j].file))}}
     \cup {Lower(SplitLast(themes[i].hacs_repository, "/")) :
             i \in {j \in 1..Len(themes) : themes[j].hacs_repository # <<>>}}

\* whether _scan_themes_directory reports the item of the themes directory (860-894)
IsManualTheme(fsys, item, themes) ==
  LET directory(dir_name) ==
        /\ Glob(fsys, item, L_yaml) \o Glob(fsys, item, L_yml) # <<>>
        /\ item \notin HacsThemePaths(themes)
        /\ dir_name \notin HacsDirectories(themes)
        /\ dir_name \notin HacsThemeNames(themes)
        /\ dir_name \notin HacsRepoNames(themes)
      file(file_stem) ==
        /\ Suffix(item) \in {L_yaml, L_yml}
        /\ item \notin HacsThemePaths(themes)
        /\ file_stem \notin HacsThemeNames(themes)
        /\ file_stem \notin HacsRepoNames(themes)
  IN IF IsDir(fsys, item) THEN directory(Lower(BaseName(item)))
     ELSE file(Lower(Stem(item)))

\* the entry appended for an item the supplementary scan found (873-911)
ManualThemeRecord(fsys, item) ==
  [name            |-> IF IsDir(fsys, item) THEN BaseName(item) ELSE Stem(item),
   file            |-> item,
   full_path       |-> item,
   repository      |-> <<>>,
   documentation   |-> <<>>,
   installed_date  |-> GetInstallationDate(fsys, Rel(item)),
   hacs_repository |-> <<>>,
   hacs_status     |-> L_manual,
   version         |-> L_unknown]

\* installed_themes (728-911)
InstalledThemes(hacs, fsys, order) ==
  LET manual(items) == [i \in 1..Len(items) |-> ManualThemeRecord(fsys, items[i])]
      found(themes) == IF Exists(fsys, L_themes)
                       THEN SelectSeq(IterDir(fsys, L_themes),
                                      LAMBDA item : IsManualTheme(fsys, item, themes))
                       ELSE <<>>
      all(themes)   == themes \o manual(found(themes))
  IN all(HacsThemes(hacs, fsys, order))

-----------------------------------------------------------------------------
(* Frontend resources: type extraction                                     *)
(*                                                                         *)
(* The text of a script file is held as what the patterns of               *)
(* _extract_types_from_js_file find in it, in the order of the text:       *)
(*   [k |-> "push",   s |-> t, b |-> <<>>]  customCards.push({type: "t"     *)
(*   [k |-> "define", s |-> t, b |-> <<>>]  customElements.define("t"       *)
(*   [k |-> "class",  s |-> C, b |-> B]     class C extends B               *)

L_LitElement  == <<"L", "i", "t", "E", "l", "e", "m", "e", "n", "t">>
L_HTMLElement == <<"H", "T", "M", "L", "E", "l", "e", "m", "e", "n", "t">>

\* [card_type, f"custom:{card_type}"] unless card_type has the prefix already (238-241, 260-265)
WithCustomVariant(t) ==
  IF StartsWith(t, L_custom) THEN <<t>> ELSE <<t, L_custom \o t>>

\* the types a tier appends for the matches of a quoted-name pattern
QuotedMatches(js, kind) ==
  LET types(found) ==
        Flatten([i \in 1..Len(found) |-> WithCustomVariant(Strip(found[i].s, Whitespace))])
  IN types(SelectSeq(js, LAMBDA m : m.k = kind /\ Strip(m.s, Whitespace) # <<>>))

\* re.sub(r'(?<!^)(?=[A-Z])', '-', match).lower()
RECURSIVE Kebab(_, _)
Kebab(s, i) ==
  IF i > Len(s) THEN <<>>
  ELSE (IF i > 1 /\ s[i] \in DOMAIN LowerMap THEN <<"-">> ELSE <<>>)
       \o <<LowerChar(s[i])>> \o Kebab(s, i + 1)

\* s matches \w*[Xx]rest at its end, for suffix = <<x>> \o rest in lower case
EndsWithWord(s, suffix) ==
  /\ Len(s) >= Len(suffix)
  /\ LET same(t) == LowerChar(t[1]) = suffix[1] /\ Tail(t) = Tail(suffix)
     IN same(SubSeq(s, Len(s) - Len(suffix) + 1, Len(s)))

\* the class names one of the four class patterns finds (270-275), pattern p of 1..4
ClassMatches(js, p) ==
  LET hit(m)       == CASE p = 1 -> EndsWithWord(m.s, <<"c", "a", "r", "d">>)
                        [] p = 2 -> EndsWithWord(m.s, <<"e", "l", "e", "m", "e", "n", "t">>)
                        [] p = 3 -> StartsWith(m.b, L_LitElement)
                        [] p = 4 -> StartsWith(m.b, L_HTMLElement)
      variants(t)  == <<t, L_custom \o t>>
      types(found) == Flatten([i \in 1..Len(found) |-> variants(Kebab(found[i].s, 1))])
  IN types(SelectSeq(SelectSeq(js, LAMBDA m : m.k = "class"),
                     LAMBDA m : hit(m) /\ Len(m.s) > 2))

\* the first of the suffixes that s ends with, removed (296-299)
RECURSIVE StripOneSuffix(_, _, _)
StripOneSuffix(s, suffixes, i) ==
  IF i > Len(suffixes) THEN s
  ELSE IF EndsWith(s, suffixes[i]) THEN SubSeq(s, 1, Len(s) - Len(suffixes[i]))
  ELSE StripOneSuffix(s, suffixes, i + 1)

\* the naming-convention fallback of _extract_types_from_js_file (288-317)
NamingFallback(resource_name) ==
  LET prefixed(plain, notCustom) ==
        plain \o [i \in 1..Len(notCustom) |-> L_custom \o notCustom[i]]
      all(plain) == prefixed(plain, SelectSeq(plain, LAMBDA p : ~StartsWith(p, L_custom)))
      plain(resource_lower, base_name) ==
        all(<<base_name, base_name \o L_card, resource_lower, resource_lower \o L_card>>)
      of(resource_lower) ==
        plain(resource_lower,
              StripOneSuffix(resource_lower, <<L_card, L_ucard, L_element, L_uelement>>, 1))
  IN of(ReplaceChar(ReplaceChar(Lower(resource_name), "_", "-"), " ", "-"))

\* ComponentScanner._extract_types_from_js_file on a script file node
ExtractTypesFromJsFile(node, resource_name) ==
  LET class == Flatten([p \in 1..4 |-> ClassMatches(node.js, p)])
      tier3(types) == IF types # <<>> THEN types
                      ELSE IF resource_name # <<>> THEN NamingFallback(resource_name)
                      ELSE <<>>
      tier2(types) == IF types # <<>> THEN types ELSE tier3(class)
      tier1(types) == IF types # <<>> THEN types ELSE tier2(QuotedMatches(node.js, "define"))
  IN IF node.bad THEN <<>>                 \* the read raises: except Exception, return []
     ELSE Dedup(SelectSeq(tier1(QuotedMatches(node.js, "push")),
                          LAMBDA t : Strip(t, Whitespace) # <<>>))

\* the script files _get_frontend_resource_types reads at config_dir / path (199-207)
ScriptFiles(fsys, path) ==
  IF ~Exists(fsys, path) THEN <<>>
  ELSE IF IsDir(fsys, path) THEN Glob(fsys, path, L_js)
  ELSE IF Suffix(path) = L_js THEN <<path>>
  ELSE <<>>

\* a variant of GetFrontendResourceTypes that keeps the first type of the list only
GetFrontendResourceTypesFirst(fsys, path, resource_name, order) ==
  LET first(l) == IF l = <<>> THEN <<>> ELSE <<l[1]>>
      types(files) ==
        Flatten([i \in 1..Len(files) |->
                   ExtractTypesFromJsFile(NodeAt(fsys, files[i]), resource_name)])
  IN first(ListOfSet(types(ScriptFiles(fsys, path)), order))

\* ComponentScanner._get_frontend_resource_types
GetFrontendResourceTypes(fsys, path, resource_name, order) ==
  LET types(files) ==
        Flatten([i \in 1..Len(files) |->
                   ExtractTypesFromJsFile(NodeAt(fsys, files[i]), resource_name)])
  IN ListOfSet(types(ScriptFiles(fsys, path)), order)

-----------------------------------------------------------------------------
(* Frontend resources: registration gate and reference check               *)

\* a variant of PossiblePatterns that derives patterns from the name alone
PossiblePatternsByName(resource_name, resource_path) ==
  LET byName(names) == [i \in 1..Len(names) |-> L_hacsfiles \o names[i] \o Slash]
      names(name, lower) ==
        Dedup(<<name, lower,
                ReplaceChar(lower, " ", "-"), ReplaceChar(lower, " ", "_"),
                ReplaceChar(name, " ", "-"), ReplaceChar(name, " ", "_"),
                ReplaceChar(name, "_", "-"), ReplaceChar(name, "-", "_")>>)
  IN byName(IF resource_name = <<>> THEN <<>>
            ELSE names(resource_name, Lower(resource_name)))

\* the URL patterns _is_frontend_resource_registered derives (459-495)
PossiblePatterns(resource_name, resource_path) ==
  LET byName(names) == [i \in 1..Len(names) |-> L_hacsfiles \o names[i] \o Slash]
      byDir(resource_dir) ==
        IF resource_dir # <<>> THEN <<L_hacsfiles \o resource_dir \o Slash>> ELSE <<>>
      names(name, lower) ==
        Dedup(<<name, lower,
                ReplaceChar(lower, " ", "-"), ReplaceChar(lower, " ", "_"),
                ReplaceChar(name, " ", "-"), ReplaceChar(name, " ", "_"),
                ReplaceChar(name, "_", "-"), ReplaceChar(name, "-", "_")>>)
  IN byName(IF resource_name = <<>> THEN <<>>
            ELSE names(resource_name, Lower(resource_name)))
     \o byDir(IF StartsWith(resource_path, L_www_community)
              THEN SplitFirst(DropPrefix(resource_path, Len(L_www_community)), "/")
              ELSE <<>>)

\* the loop over registered_resources (498-507), from item i on: "T", "F", or "E"
RECURSIVE MatchRegistered(_, _, _)
MatchRegistered(items, i, patterns) ==
  LET byUrl(resource_url) ==
        IF ~Truthy(resource_url) THEN MatchRegistered(items, i + 1, patterns)
        ELSE IF ~IsStr(resource_url) THEN "E"         \* resource_url.split: AttributeError
        ELSE IF \E j \in 1..Len(patterns) :
                  StartsWith(SplitFirst(resource_url.v, "?"), patterns[j])
             THEN "T"
             ELSE MatchRegistered(items, i + 1, patterns)
  IN IF i > Len(items) THEN "F"
     ELSE IF ~IsMap(items[i]) THEN "E"
     ELSE byUrl(JGet(items[i], "url", JStr(<<>>)))

\* ComponentScanner._is_frontend_resource_registered: "T", "F", or "E" when it raises
IsFrontendResourceRegistered(st, resource_name, resource_path) ==
  LET byItems(registered) ==
        IF ~Truthy(registered) THEN "F"
        ELSE CASE registered.k \in {"bool", "num"} -> "E"
               [] registered.k \in {"str", "map"} -> "E"
               [] OTHER -> MatchRegistered(registered.v, 1,
                                           PossiblePatterns(resource_name, resource_path))
      byFile(lovelace_resources) ==
        IF lovelace_resources.exc \/ ~IsMap(lovelace_resources.val) THEN "E"
        ELSE byItems(JGet(lovelace_resources.val, "items", JList(<<>>)))
  IN byFile(LoadStorageFile(st["lovelace_resources"]))

\* str.replace(sub, ""), for a non-empty sub
RECURSIVE RemoveSub(_, _)
RemoveSub(s, sub) ==
  IF s = <<>> THEN <<>>
  ELSE IF StartsWith(s, sub) THEN RemoveSub(DropPrefix(s, Len(sub)), sub)
  ELSE <<Head(s)>> \o RemoveSub(Tail(s), sub)

\* t.lower().replace("custom:", "").replace("-", "").replace("_", "")
NormalizedType(t) == RemoveChar(RemoveChar(RemoveSub(Lower(t), L_custom), "-"), "_")

\* the comparison of a "type" value that is a str with custom_type (588-613)
TypeMatches(current_type, custom_type) ==
  LET bare(t) == DropPrefix(t, Len(L_custom))
  IN \/ current_type = custom_type
     \/ /\ StartsWith(custom_type, L_custom)
        /\ \/ current_type = bare(custom_type)
           \/ current_type = L_custom \o bare(custom_type)
     \/ /\ ~StartsWith(current_type, L_custom)
        /\ L_custom \o current_type = custom_type
     \/ NormalizedType(custom_type) = NormalizedType(current_type)

\* ComponentScanner._check_custom_type_in_lovelace: "T", "F", or "E" when it raises.
\* TypeInItems is its loop over config.items() from item i on, TypeInList its loop over
\* a list value from element j on, followed by the items after i.
RECURSIVE CheckCustomTypeInLovelace(_, _)
RECURSIVE TypeInItems(_, _, _)
RECURSIVE TypeInList(_, _, _, _, _)
CheckCustomTypeInLovelace(config, custom_type) ==
  LET byType(current_type) ==
        IF ~Truthy(current_type) THEN TypeInItems(config, 1, custom_type)
        ELSE IF ~IsStr(current_type)
             THEN "E"       \* current_type.startswith: AttributeError
             ELSE IF TypeMatches(current_type.v, custom_type) THEN "T"
             ELSE TypeInItems(config, 1, custom_type)
  IN IF ~IsMap(config) THEN "F" ELSE byType(JGet(config, "type", JNull))

TypeInItems(config, i, custom_type) ==
  LET orNext(r) == IF r # "F" THEN r ELSE TypeInItems(config, i + 1, custom_type)
      byValue(value) ==
        IF IsMap(value) THEN orNext(CheckCustomTypeInLovelace(value, custom_type))
        ELSE IF IsList(value) THEN TypeInList(config, i, value.v, 1, custom_type)
        ELSE TypeInItems(config, i + 1, custom_type)
  IN IF i > Len(config.v) THEN "F" ELSE byValue(config.v[i][2])

TypeInList(config, i, list, j, custom_type) ==
  LET orNext(r) == IF r # "F" THEN r ELSE TypeInList(config, i, list, j + 1, custom_type)
  IN IF j > Len(list) THEN TypeInItems(config, i + 1, custom_type)
     ELSE orNext(IF IsMap(list[j]) THEN CheckCustomTypeInLovelace(list[j], custom_type)
                 ELSE "F")

\* the stores _check_frontend_resource_usage never lists (543)
FrontendSkipped == {"lovelace_resources", "lovelace_dashboards"}

\* a variant of FrontendLovelaceFiles that lists every store named with the prefix
FrontendLovelaceFilesAll(st) ==
  IF ~StorageDirExists THEN <<>>
  ELSE SelectSeq(StorageNames,
                 LAMBDA n : FileExists(st[n]) /\ StartsWith(NameChars[n], L_lovelace))

\* _get_lovelace_files of _check_frontend_resource_usage (538-545)
FrontendLovelaceFiles(st) ==
  IF ~StorageDirExists THEN <<>>
  ELSE SelectSeq(StorageNames,
                 LAMBDA n : /\ FileExists(st[n])
                            /\ StartsWith(NameChars[n], L_lovelace)
                            /\ n \notin FrontendSkipped)

\* the body of the loop over the lovelace files (552-576) for one file:
\* "T" a match, "F" no match or an exception caught and logged
TypeInLovelaceFile(f, custom_type) ==
  LET orData(inConfig, data_section) ==
        IF inConfig = "T" THEN "T"
        ELSE IF inConfig = "E" THEN "F"
        ELSE IF CheckCustomTypeInLovelace(data_section, custom_type) = "T"
             THEN "T" ELSE "F"
      inData(data_section) ==
        IF ~IsMap(data_section) THEN "F"
        ELSE orData(CheckCustomTypeInLovelace(JGet(data_section, "config", JEmpty),
                                              custom_type),
                    data_section)
      inFile(r) == IF r.exc # "none" \/ ~IsMap(r.val) THEN "F"
                   ELSE inData(JGet(r.val, "data", JEmpty))
  IN inFile(ReadJson(f))

\* a variant of CheckFrontendResourceUsage whose loop over the lovelace files has no
\* try / except: an exception met in a file ends the check
CheckFrontendResourceUsageUnguarded(st, custom_type) ==
  LET raises(f) ==
        \/ ReadJson(f).exc # "none"
        \/ ~IsMap(ReadJson(f).val)
        \/ LET inData(data_section) ==
                 /\ IsMap(data_section)
                 /\ "E" \in {CheckCustomTypeInLovelace(JGet(data_section, "config", JEmpty),
                                                       custom_type),
                             CheckCustomTypeInLovelace(data_section, custom_type)}
           IN inData(JGet(ReadJson(f).val, "data", JEmpty))
      outcome(l) ==
        [res   |-> IF \E i \in 1..Len(l.reads) : raises(st[l.reads[i]]) THEN "E" ELSE l.res,
         reads |-> l.reads]
      scan(files) ==
        outcome(LovelaceScan(files, [i \in 1..Len(files) |->
                                       TypeInLovelaceFile(st[files[i]], custom_type)]))
  IN scan(FrontendLovelaceFiles(st))

\* ComponentScanner._check_frontend_resource_usage: [res, reads]
CheckFrontendResourceUsage(st, custom_type) ==
  LET scan(files) ==
        LovelaceScan(files, [i \in 1..Len(files) |->
                               TypeInLovelaceFile(st[files[i]], custom_type)])
  IN scan(FrontendLovelaceFiles(st))

\* actual_resource_path of _is_frontend_resource_used (1109-1130): <<>> stands for None
RECURSIVE FirstExisting(_, _, _)
FirstExisting(fsys, paths, i) ==
  IF i > Len(paths) THEN <<>>
  ELSE IF Exists(fsys, paths[i]) THEN paths[i]
  ELSE FirstExisting(fsys, paths, i + 1)

ActualResourcePath(fsys, resource_name, resource_path) ==
  IF StartsWith(resource_path, L_www_community) THEN resource_path
  ELSE FirstExisting(fsys,
         <<L_www_community \o resource_name,
           L_www_community \o Lower(resource_name),
           L_www_community \o ReplaceChar(resource_name, "_", "-"),
           L_www_community \o ReplaceChar(resource_name, "-", "_")>>, 1)

\* the fallback patterns of _is_frontend_resource_used (1137-1155)
UsageFallback(resource_name) ==
  LET suffixed(p) == (IF ~EndsWith(p, L_card) THEN <<p \o L_card>> ELSE <<>>)
                     \o (IF ~EndsWith(p, L_ucard) THEN <<p \o L_ucard>> ELSE <<>>)
      prefixed(plain) == [i \in 1..Len(plain) |-> L_custom \o plain[i]] \o plain
      all(base)   == prefixed(base \o Flatten([i \in 1..Len(base) |-> suffixed(base[i])]))
      of(lower)   == all(<<lower, ReplaceChar(lower, "_", "-"), ReplaceChar(lower, "-", "_")>>)
  IN of(Lower(resource_name))

\* the script files read for a resource that passed the registration gate (1132-1134)
ResourceScripts(fsys, resource) ==
  LET at(actual) == IF actual = <<>> THEN <<>> ELSE ScriptFiles(fsys, actual)
  IN at(ActualResourcePath(fsys, resource.name, resource.path))

\* custom_types of _is_frontend_resource_used (1132-1155): the identifiers checked
ResourceIdentifiers(fsys, resource, order) ==
  LET orFallback(extracted) ==
        IF extracted = <<>> THEN UsageFallback(resource.name) ELSE extracted
      at(actual) ==
        orFallback(IF actual # <<>> /\ Exists(fsys, actual)
                   THEN GetFrontendResourceTypes(fsys, actual, resource.name, order)
                   ELSE <<>>)
  IN at(ActualResourcePath(fsys, resource.name, resource.path))

\* _is_frontend_resource_used once the resource passed the registration gate (1107-1166)
CheckRegisteredResource(st, fsys, resource, order) ==
  LET outcome(found) ==
        [res     |-> found.res,
         reads   |-> <<"lovelace_resources">> \o found.reads,
         scripts |-> ResourceScripts(fsys, resource)]
      checked(types) ==
        outcome(FirstOutcome([i \in 1..Len(types) |->
                                CheckFrontendResourceUsage(st, types[i])]))
  IN checked(ResourceIdentifiers(fsys, resource, order))

\* a variant of IsFrontendResourceUsed without the registration gate
IsFrontendResourceUsedUngated(st, fsys, resource, order) ==
  IF resource.name = <<>> THEN [res |-> "F", reads |-> <<>>, scripts |-> <<>>]
  ELSE CheckRegisteredResource(st, fsys, resource, order)

\* a variant of IsFrontendResourceUsed that takes a registered resource for a used one
IsFrontendResourceUsedIfRegistered(st, fsys, resource, order) ==
  LET gated(gate) == [res |-> gate, reads |-> <<"lovelace_resources">>, scripts |-> <<>>]
  IN IF resource.name = <<>> THEN [res |-> "F", reads |-> <<>>, scripts |-> <<>>]
     ELSE gated(IsFrontendResourceRegistered(st, resource.name, resource.path))

\* ComponentScanner._is_frontend_resource_used: [res, reads, scripts], the files of
\* .storage and the script files it read
IsFrontendResourceUsed(st, fsys, resource, order) ==
  LET gated(gate) ==
        IF gate # "T"
        THEN [res |-> gate, reads |-> <<"lovelace_resources">>, scripts |-> <<>>]
        ELSE CheckRegisteredResource(st, fsys, resource, order)
  IN IF resource.name = <<>> THEN [res |-> "F", reads |-> <<>>, scripts |-> <<>>]
     ELSE gated(IsFrontendResourceRegistered(st, resource.name, resource.path))

-----------------------------------------------------------------------------
(* Installed frontend resources                                            *)

\* the loop over resource_patterns (1007-1013), from pattern i on
RECURSIVE ResourcePatternLocation(_, _, _)
ResourcePatternLocation(fsys, patterns, i) ==
  IF i > Len(patterns) THEN NoLocation
  ELSE LET dir == L_www_community \o patterns[i]
       IN IF IsDir(fsys, dir)
          THEN [date |-> GetInstallationDate(fsys, Rel(dir)), path |-> dir]
          ELSE ResourcePatternLocation(fsys, patterns, i + 1)

L_www_community_dir == <<"w", "w", "w", "/", "c", "o", "m", "m", "u", "n", "i", "t", "y">>

\* install date and path of a plugin entry (967-1021)
ResourceLocation(repo, fsys, order) ==
  LET orFallback(found, display, fallback) ==
        IF IsNull(found.date) /\ display # <<>> /\ Exists(fsys, fallback)
        THEN [date |-> GetInstallationDate(fsys, Rel(fallback)),
              path |-> IF found.path = <<>> THEN fallback ELSE found.path]
        ELSE found
      located(found, display) == orFallback(found, display, Join(L_www, display))
      merged(byLocal, byName) ==
        located(IF IsNull(byLocal.date) /\ ~IsNull(byName.date) THEN byName ELSE byLocal,
                DisplayName(repo))
      from(byLocal) ==
        merged(byLocal,
               IF IsNull(byLocal.date) /\ Exists(fsys, L_www_community_dir)
               THEN ResourcePatternLocation(fsys, NamePatterns(repo, order), 1)
               ELSE NoLocation)
  IN from(LocalPathLocation(repo, fsys))

\* one entry of installed_frontend (946-1034)
FrontendRecord(repo, fsys, order) ==
  LET record(loc, full_name) ==
        [name            |-> DisplayName(repo),
         path            |-> loc.path,
         type            |-> L_hacs_plugin,
         full_path       |-> GetStr(repo, "local_path"),
         repository      |-> RepoUrl(full_name),
         documentation   |-> DocUrl(repo),
         installed_date  |-> loc.date,
         hacs_repository |-> full_name,
         hacs_status     |-> L_installed,
         version         |-> IF HasKey(repo, "version_installed")
                             THEN GetStr(repo, "version_installed") ELSE L_unknown]
  IN record(ResourceLocation(repo, fsys, order), GetStr(repo, "full_name"))

\* installed_frontend (936-1034)
InstalledFrontend(hacs, fsys, order) ==
  LET records(repos) == [i \in 1..Len(repos) |-> FrontendRecord(repos[i], fsys, order)]
  IN records(InstalledRepos(hacs, L_plugin))

-----------------------------------------------------------------------------
(* The three scans                                                         *)

\* the io log of a scan: per artifact, what its usage check read
IoEntry(name, r, scripts) ==
  [name |-> name, res |-> r.res, reads |-> r.reads, scripts |-> scripts]

ScanFailed(cache) == [exc |-> TRUE, report |-> NoReport, io |-> <<>>, cache |-> cache]

\* the loop that classifies the installed artifacts (917-923, 1041-1049): the scan
\* raises when a usage check raises
Classified(cache, installed, io) ==
  IF \E i \in 1..Len(io) : io[i].res = "E"
  THEN ScanFailed(cache)
  ELSE [exc    |-> FALSE,
        report |-> Report(installed, [i \in 1..Len(installed) |-> io[i].res = "T"]),
        io     |-> io,
        cache  |-> cache]

\* a variant of ScanCustomThemes that leaves the cache emptied
ScanCustomThemesClears(cache, st, fsys, order) ==
  LET entry(theme, r)   == IoEntry(theme.name, r, <<>>)
      emptied == [loaded |-> TRUE, val |-> JEmpty]
      classify(h, installed) ==
        Classified(emptied, installed,
                   [i \in 1..Len(installed) |->
                      entry(installed[i], IsThemeUsed(st, fsys, installed[i]))])
      scanned(h) == IF h.exc \/ ~IsMap(h.val)
                    THEN ScanFailed(h.cache)
                    ELSE classify(h, InstalledThemes(h.val, fsys, order))
  IN scanned(LoadHacsRepositories(cache, st))

\* ComponentScanner.scan_custom_themes
ScanCustomThemes(cache, st, fsys, order) ==
  LET entry(theme, r)   == IoEntry(theme.name, r, <<>>)
      classify(h, installed) ==
        Classified(h.cache, installed,
                   [i \in 1..Len(installed) |->
                      entry(installed[i], IsThemeUsed(st, fsys, installed[i]))])
      scanned(h) == IF h.exc \/ ~IsMap(h.val)   \* hacs_repositories.items(): AttributeError
                    THEN ScanFailed(h.cache)
                    ELSE classify(h, InstalledThemes(h.val, fsys, order))
  IN scanned(LoadHacsRepositories(cache, st))

\* ComponentScanner.scan_custom_frontend
ScanCustomFrontend(cache, st, fsys, order) ==
  LET entry(resource, r) == IoEntry(resource.name, r, r.scripts)
      classify(h, installed) ==
        Classified(h.cache, installed,
                   [i \in 1..Len(installed) |->
                      entry(installed[i],
                            IsFrontendResourceUsed(st, fsys, installed[i], order))])
      scanned(h) == IF h.exc \/ ~IsMap(h.val)   \* hacs_repositories.items(): AttributeError
                    THEN ScanFailed(h.cache)
                    ELSE classify(h, InstalledFrontend(h.val, fsys, order))
  IN scanned(LoadHacsRepositories(cache, st))

-----------------------------------------------------------------------------
(* The sensors                                                             *)

\* the keys of SENSOR_DESCRIPTIONS (1208-1224)
SensorKeys == {"unused_integrations", "unused_themes", "unused_frontend"}

\* the report of coordinator.data a sensor shows (1285-1292, 1297-1304)
SensorData(key, coordinator_data) ==
  CASE key = "unused_integrations" -> coordinator_data.integrations
    [] key = "unused_themes"       -> coordinator_data.themes
    [] key = "unused_frontend"     -> coordinator_data.frontend

\* a variant of FilterComponentForAttributes that keeps every field
FilterComponentKeepsAll(component) == component

\* CustomComponentMonitorSensor._filter_component_for_attributes
FilterComponentForAttributes(component) ==
  [field \in DOMAIN component
             \cap {"name", "domain", "installed_date", "version", "repository"} |->
     component[field]]

\* CustomComponentMonitorSensor.native_value
NativeValue(key, coordinator_data) == Len(SensorData(key, coordinator_data).unused)

\* CustomComponentMonitorSensor.extra_state_attributes
ExtraStateAttributes(key, coordinator_data) ==
  LET attributes(report) ==
        [total_components  |-> report.total,
         used_components   |-> Len(report.used),
         unused_components |-> [i \in 1..Len(report.unused) |->
                                  FilterComponentForAttributes(report.unused[i])],
         last_scan         |-> coordinator_data.last_scan]
  IN attributes(SensorData(key, coordinator_data))

-----------------------------------------------------------------------------
(* The modelled installation: the contents the stores and the              *)
(* configuration directory take                                            *)

N_solar == <<"s", "o", "l", "a", "r">>
N_themes_solar_yaml == <<"t", "h", "e", "m", "e", "s", "/", "s", "o", "l", "a", "r", ".", "y", "a", "m", "l">>
N_themes_dark_yaml == <<"t", "h", "e", "m", "e", "s", "/", "d", "a", "r", "k", "/", "d", "a", "r", "k", ".", "y", "a", "m", "l">>
N_cc_alpha == <<"c", "u", "s", "t", "o", "m", "_", "c", "o", "m", "p", "o", "n", "e", "n", "t", "s", "/", "a", "l", "p", "h", "a">>
N_mycard_js == <<"w", "w", "w", "/", "c", "o", "m", "m", "u", "n", "i", "t", "y", "/", "m", "y", "c", "a", "r", "d", "/", "m", "y", "c", "a", "r", "d", ".", "j", "s">>
N_gauge == <<"g", "a", "u", "g", "e">>
N_owner_gauge == <<"o", "w", "n", "/", "g", "a", "u", "g", "e">>
N_entities == <<"e", "n", "t", "i", "t", "i", "e", "s">>
N_stack == <<"v", "e", "r", "t", "i", "c", "a", "l", "-", "s", "t", "a", "c", "k">>
N_My_Card == <<"M", "y", "_", "C", "a", "r", "d">>
N_module == <<"m", "o", "d", "u", "l", "e">>
N_Night == <<"N", "i", "g", "h", "t">>
N_night == <<"n", "i", "g", "h", "t">>
N_NIGHT == <<"N", "I", "G", "H", "T">>
Y_night == <<"N", "i", "g", "h", "t", ":">>
Y_primary == <<" ", " ", "p", "r", "i", "m", "a", "r", "y", "-", "c", "o", "l", "o", "r", ":", " ", "\"", "#", "f", "f", "f", "\"">>
Y_solar == <<"s", "o", "l", "a", "r", ":">>
Y_comment == <<"#", " ", "t", "h", "e", "m", "e", "s">>

Y_docsep == <<"-", "-", "-">>
Y_variable == <<"p", "r", "i", "m", "a", "r", "y", "-", "c", "o", "l", "o", "r", ":", " ", "\"", "#", "f", "f", "f", "\"">>
Y_ha == <<"h", "a", "-", "c", "a", "r", "d", "-", "r", "a", "d", "i", "u", "s", ":", " ", "4", "p", "x">>
Y_quoted == <<"\"", "N", "i", "g", "h", "t", "\"", ":", " ">>
Y_tabbed == <<"\t", "i", "n", "n", "e", "r", ":">>
\* keys of 49 and of 50 characters
Y_long49 == [i \in 1..49 |-> "x"] \o <<":">>
Y_long50 == [i \in 1..50 |-> "y"] \o <<":">>
N_themes_dark_extra_yml == <<"t", "h", "e", "m", "e", "s", "/", "d", "a", "r", "k", "/", "e", "x", "t", "r", "a", ".", "y", "m", "l">>
N_mycard_editor_js == <<"w", "w", "w", "/", "c", "o", "m", "m", "u", "n", "i", "t", "y", "/", "m", "y", "c", "a", "r", "d", "/", "e", "d", "i", "t", "o", "r", ".", "j", "s">>
N_MyCardEditor == <<"M", "y", "C", "a", "r", "d", "E", "d", "i", "t", "o", "r">>
N_My_Card_spaced == <<"M", "y", " ", "C", "a", "r", "d">>
N_Gauge_Card == <<"G", "a", "u", "g", "e", "_", "C", "a", "r", "d">>
N_url_gauge_card == <<"/", "h", "a", "c", "s", "f", "i", "l", "e", "s", "/", "G", "a", "u", "g", "e", "-", "C", "a", "r", "d", "/", "g", "a", "u", "g", "e", "-", "c", "a", "r", "d", ".", "j", "s">>
N_Night_Sky == <<"N", "i", "g", "h", "t", "_", "S", "k", "y">>
N_owner_Night_Sky == <<"o", "w", "n", "/", "N", "i", "g", "h", "t", "_", "S", "k", "y">>
N_themes_night_sky == <<"t", "h", "e", "m", "e", "s", "/", "n", "i", "g", "h", "t", "-", "s", "k", "y">>
N_themes_night_sky_yaml == <<"t", "h", "e", "m", "e", "s", "/", "n", "i", "g", "h", "t", "-", "s", "k", "y", "/", "s", "k", "y", ".", "y", "a", "m", "l">>
Y_sky == <<"s", "k", "y", ":">>
N_owner_sparse == <<"o", "w", "n", "/", "s", "p", "a", "r", "s", "e">>

\* a persisted document: {"version": 1, "data": data}
Doc(data) == FJson(JMap(<< <<"version", JNum(1)>>, <<"data", data>> >>))

\* a file holding JSON that is not an object
NotAnObject == FJson(JList(<<>>))

(* hacs.repositories *)
RepoAlpha ==
  JMap(<< <<"category", JStr(L_integration)>>, <<"installed", JBool(TRUE)>>,
          <<"domain", JStr(N_alpha)>>, <<"full_name", JStr(N_owner_alpha)>>,
          <<"name", JStr(N_Alpha)>>, <<"version_installed", JStr(N_v1)>> >>)
RepoHacs ==
  JMap(<< <<"category", JStr(L_integration)>>, <<"installed", JBool(TRUE)>>,
          <<"full_name", JStr(N_owner_hacs)>>,
          <<"repository_manifest", JMap(<< <<"domain", JStr(L_hacs)>> >>)>> >>)
RepoBeta ==
  JMap(<< <<"category", JStr(L_integration)>>, <<"installed", JBool(FALSE)>>,
          <<"domain", JStr(N_beta)>> >>)
RepoDark ==
  JMap(<< <<"category", JStr(L_theme)>>, <<"installed", JBool(TRUE)>>,
          <<"name", JStr(N_Dark)>>, <<"full_name", JStr(N_owner_dark)>>,
          <<"local_path", JStr(N_themes_dark)>> >>)
RepoMycard ==
  JMap(<< <<"category", JStr(L_plugin)>>, <<"installed", JBool(TRUE)>>,
          <<"full_name", JStr(N_owner_mycard)>>,
          <<"local_path", JStr(N_www_mycard)>>, <<"version_installed", JStr(N_v1)>> >>)
RepoGauge ==
  JMap(<< <<"category", JStr(L_plugin)>>, <<"installed", JBool(TRUE)>>,
          <<"name", JStr(N_gauge)>>, <<"full_name", JStr(N_owner_gauge)>> >>)

\* entries that lack what names them
RepoNoDomain ==
  JMap(<< <<"category", JStr(L_integration)>>, <<"installed", JBool(TRUE)>>,
          <<"full_name", JStr(N_owner_sparse)>> >>)
RepoNamelessTheme ==
  JMap(<< <<"category", JStr(L_theme)>>, <<"installed", JBool(TRUE)>> >>)
RepoNamelessPlugin ==
  JMap(<< <<"category", JStr(L_plugin)>>, <<"installed", JBool(TRUE)>> >>)
RepoThemeNotInstalled ==
  JMap(<< <<"category", JStr(L_theme)>>, <<"installed", JBool(FALSE)>>,
          <<"name", JStr(N_solar)>> >>)

HacsData ==
  JMap(<< <<"1", RepoAlpha>>, <<"2", RepoHacs>>, <<"3", RepoBeta>>, <<"4", JStr(N_v1)>>,
          <<"5", RepoDark>>, <<"6", RepoMycard>>, <<"7", RepoGauge>> >>)

\* plugin entries whose name is not the name of their install directory
RepoMyCardNamed ==
  JMap(<< <<"category", JStr(L_plugin)>>, <<"installed", JBool(TRUE)>>,
          <<"name", JStr(N_My_Card_spaced)>>, <<"full_name", JStr(N_owner_mycard)>>,
          <<"local_path", JStr(N_www_mycard)>> >>)
RepoGaugeNamed ==
  JMap(<< <<"category", JStr(L_plugin)>>, <<"installed", JBool(TRUE)>>,
          <<"name", JStr(N_Gauge_Card)>>, <<"full_name", JStr(N_owner_gauge)>> >>)

\* a theme entry without a recorded path, named with an underscore
RepoNightSky ==
  JMap(<< <<"category", JStr(L_theme)>>, <<"installed", JBool(TRUE)>>,
          <<"name", JStr(N_Night_Sky)>>, <<"full_name", JStr(N_owner_Night_Sky)>> >>)

HacsRenamed ==
  JMap(<< <<"1", RepoAlpha>>, <<"2", RepoDark>>, <<"3", RepoMyCardNamed>>,
          <<"4", RepoGaugeNamed>>, <<"5", RepoNightSky>> >>)

HacsSparse ==
  JMap(<< <<"1", RepoAlpha>>, <<"2", RepoNoDomain>>, <<"3", RepoNamelessTheme>>,
          <<"4", RepoNamelessPlugin>>, <<"5", RepoThemeNotInstalled>>, <<"6", RepoMycard>> >>)

(* core.config_entries *)
Entry(domain) == JMap(<< <<"domain", JStr(domain)>> >>)
EntriesDoc(entries) == Doc(JMap(<< <<"entries", JList(entries)>> >>))

(* core.config and auth *)
CoreConfigDoc(theme) ==
  Doc(JMap(<< <<"frontend", JMap(<< <<"theme", JStr(theme)>> >>)>> >>))
AuthDoc(user_data) ==
  Doc(JMap(<< <<"users", JList(<< JMap(<< <<"user_data", user_data>> >>) >>)>> >>))

(* lovelace_resources and lovelace_dashboards *)
ResourcesDoc ==
  Doc(JMap(<< <<"items", JList(<< JMap(<< <<"url", JStr(N_url_mycard)>>,
                                          <<"type", JStr(N_module)>> >>),
                                  JMap(<< <<"url", JStr(N_url_gauge_card)>>,
                                          <<"type", JStr(N_module)>> >>) >>)>> >>))
DashboardsDoc ==
  Doc(JMap(<< <<"items", JList(<< JMap(<< <<"mode", JStr(N_module)>>,
                                          <<"type", JStr(N_custom_my_card)>> >>) >>)>> >>))

(* dashboard definitions *)
Card(type) == JMap(<< <<"type", JStr(type)>> >>)
Dashboard(config) == Doc(JMap(<< <<"config", config>> >>))

\* a view with a theme and a custom card
DashFull ==
  Dashboard(JMap(<< <<"views", JList(<< JMap(<< <<"theme", JStr(N_night)>>,
      <<"cards", JList(<< Card(N_entities), Card(N_custom_my_card) >>)>> >>) >>)>> >>))
\* no theme, no custom card
DashPlain ==
  Dashboard(JMap(<< <<"views", JList(<< JMap(<<
      <<"cards", JList(<< Card(N_entities) >>)>> >>) >>)>> >>))
\* a theme at the root, in another case
DashRoot ==
  Dashboard(JMap(<< <<"theme", JStr(N_NIGHT)>>, <<"views", JList(<<>>)>> >>))
\* the display name of the theme at the root
DashDisplay ==
  Dashboard(JMap(<< <<"theme", JStr(N_dark)>>, <<"views", JList(<<>>)>> >>))
\* theme and card inside a card of a card of a view
DashNested ==
  Dashboard(JMap(<< <<"views", JList(<< JMap(<< <<"cards", JList(<<
      JMap(<< <<"type", JStr(N_stack)>>,
              <<"cards", JList(<< JMap(<< <<"theme", JStr(N_Night)>>,
                                          <<"type", JStr(N_My_Card)>> >>) >>)>> >>) >>)>> >>) >>)>> >>))
\* theme and card in a list that is an element of a list
DashListInList ==
  Dashboard(JMap(<< <<"views", JList(<< JList(<< JMap(<< <<"theme", JStr(N_night)>>,
      <<"type", JStr(N_custom_my_card)>> >>) >>) >>)>> >>))
\* a card whose type is a number, before a custom card
DashBadType ==
  Dashboard(JMap(<< <<"views", JList(<< JMap(<<
      <<"cards", JList(<< JMap(<< <<"type", JNum(5)>> >>),
                          Card(N_custom_my_card) >>)>> >>) >>)>> >>))
\* a theme object
DashThemeObject ==
  Dashboard(JMap(<< <<"theme", JMap(<< <<"selected_theme", JStr(N_night)>> >>)>> >>))

(* the configuration directory *)
Dir(p)             == [path |-> p, kind |-> "dir",  lines |-> <<>>, js |-> <<>>, bad |-> FALSE]
YamlFile(p, lines) == [path |-> p, kind |-> "file", lines |-> lines, js |-> <<>>, bad |-> FALSE]
JsFile(p, js)      == [path |-> p, kind |-> "file", lines |-> <<>>, js |-> js, bad |-> FALSE]
Unreadable(p)      == [path |-> p, kind |-> "file", lines |-> <<>>, js |-> <<>>, bad |-> TRUE]

DefineMyCard == [k |-> "define", s |-> N_my_card, b |-> <<>>]

Tree(darkYaml, mycardJs) ==
  << Dir(L_custom_components), Dir(N_cc_alpha),
     Dir(L_themes), Dir(N_themes_dark), darkYaml,
     YamlFile(N_themes_solar_yaml, <<Y_comment, Y_solar, Y_primary>>),
     Dir(N_themes_night_sky), YamlFile(N_themes_night_sky_yaml, <<Y_sky, Y_primary>>),
     Dir(L_www), Dir(L_www_community_dir), Dir(N_www_mycard), mycardJs >>

FsBase ==
  Tree(YamlFile(N_themes_dark_yaml, <<Y_night, Y_primary>>),
       JsFile(N_mycard_js, <<DefineMyCard>>))
\* the definition file of the theme cannot be read
FsThemeUnreadable ==
  Tree(Unreadable(N_themes_dark_yaml), JsFile(N_mycard_js, <<DefineMyCard>>))
\* the script registers nothing
FsPlainScript ==
  Tree(YamlFile(N_themes_dark_yaml, <<Y_night, Y_primary>>), JsFile(N_mycard_js, <<>>))
\* nothing on disk
FsEmpty == <<>>
\* a second definition file in the directory of the theme
FsThemeFiles ==
  FsBase \o << YamlFile(N_themes_dark_extra_yml,
                        <<Y_docsep, Y_quoted, Y_long49, Y_long50, Y_variable, Y_ha,
                          Y_tabbed, Y_solar>>) >>
\* a second script in the directory of the resource, which declares a class only
ClassEditor == [k |-> "class", s |-> N_MyCardEditor, b |-> L_LitElement]
FsTwoScripts == FsBase \o << JsFile(N_mycard_editor_js, <<ClassEditor>>) >>

\* the contents each file of .storage takes; the first is the initial one
Contents ==
  [n \in SeqToSet(StorageNames) |->
     CASE n = "hacs.repositories"   -> <<Doc(HacsData), FAbsent, NotAnObject, Doc(HacsSparse),
                                         Doc(JNull), Doc(HacsRenamed)>>
       [] n = "core.config_entries" -> <<EntriesDoc(<<Entry(N_alpha), Entry(L_hacs)>>),
                                         EntriesDoc(<<Entry(L_hacs)>>), FAbsent, NotAnObject>>
       [] n = "core.config"         -> <<FAbsent, CoreConfigDoc(N_NIGHT), CoreConfigDoc(N_solar),
                                         NotAnObject, FBadJson>>
       [] n = "auth"                -> <<FAbsent, AuthDoc(JMap(<< <<"theme", JStr(N_Night)>> >>)),
                                         AuthDoc(JNull)>>
       [] n = "lovelace_resources"  -> <<ResourcesDoc, FAbsent, FBadJson, NotAnObject>>
       [] n = "lovelace_dashboards" -> <<DashboardsDoc, FAbsent, NotAnObject>>
       [] n = "lovelace"            -> <<DashFull, DashPlain, DashRoot, DashDisplay, DashNested,
                                         DashListInList, DashThemeObject, FBadJson,
                                         DashBadType>>
       [] n = "lovelace.second"     -> <<DashPlain, FAbsent, FBadJson, NotAnObject, FBadUtf8,
                                         DashFull>>]

\* the trees the configuration directory takes; the first is the initial one
Trees == <<FsBase, FsThemeUnreadable, FsPlainScript, FsEmpty, FsThemeFiles, FsTwoScripts>>

-----------------------------------------------------------------------------
(* The scan cycle                                                          *)

MaxWrites == 1

VARIABLES
  storage,            \* <config>/.storage: file name -> what the file holds
  fs,                 \* the rest of the configuration directory
  order,              \* the iteration order of a set of str in this process
  hacs_repositories,  \* ComponentScanner._hacs_repositories: [loaded, val]
  pc,                 \* where _async_update_data is: idle, integrations, themes, frontend, return
  integrations,       \* the local variables of _async_update_data
  themes,
  frontend,
  io,                 \* per kind, what the usage checks of the running scan read
  data,               \* coordinator.data
  result,             \* how the last _async_update_data ended: none, report, UpdateFailed
  writes              \* changes made to the configuration so far

vars == <<storage, fs, order, hacs_repositories, pc, integrations, themes, frontend,
          io, data, result, writes>>

NoIo == [themes |-> <<>>, frontend |-> <<>>]

NoData == [valid |-> FALSE, integrations |-> NoReport, themes |-> NoReport,
           frontend |-> NoReport, last_scan |-> JNull]

Init ==
  /\ storage = [n \in SeqToSet(StorageNames) |-> Contents[n][1]]
  /\ fs = Trees[1]
  /\ order \in {"fwd", "rev"}
  /\ hacs_repositories = [loaded |-> FALSE, val |-> JNull]
  /\ pc = "idle"
  /\ integrations = NoReport
  /\ themes = NoReport
  /\ frontend = NoReport
  /\ io = NoIo
  /\ data = NoData
  /\ result = "none"
  /\ writes = 0

\* the platform or the user rewrites a file of .storage between two scans
WriteStore ==
  /\ pc = "idle"
  /\ writes < MaxWrites
  /\ \E n \in SeqToSet(StorageNames) : \E i \in 1..Len(Contents[n]) :
       storage' = [storage EXCEPT ![n] = Contents[n][i]]
  /\ writes' = writes + 1
  /\ UNCHANGED <<fs, order, hacs_repositories, pc, integrations, themes, frontend,
                 io, data, result>>

\* the configuration directory changes between two scans
WriteFs ==
  /\ pc = "idle"
  /\ writes < MaxWrites
  /\ \E i \in 1..Len(Trees) : fs' = Trees[i]
  /\ writes' = writes + 1
  /\ UNCHANGED <<storage, order, hacs_repositories, pc, integrations, themes, frontend,
                 io, data, result>>

\* _async_update_data is called (1181-1184)
BeginUpdate ==
  /\ pc = "idle"
  /\ pc' = "integrations"
  /\ io' = NoIo
  /\ UNCHANGED <<storage, fs, order, hacs_repositories, integrations, themes, frontend,
                 data, result, writes>>

\* a variant of UpdateFailed that starts the cycle again instead of raising
UpdateFailedRetries(cache) ==
  /\ pc' = "integrations"
  /\ result' = "UpdateFailed"
  /\ hacs_repositories' = cache
  /\ integrations' = NoReport
  /\ themes' = NoReport
  /\ frontend' = NoReport
  /\ io' = NoIo
  /\ UNCHANGED <<storage, fs, order, data, writes>>

\* a variant of UpdateFailed that publishes the reports the cycle has so far
UpdateFailedPublishes(cache) ==
  /\ pc' = "idle"
  /\ result' = "report"
  /\ hacs_repositories' = cache
  /\ data' = [valid |-> TRUE, integrations |-> integrations, themes |-> themes,
              frontend |-> frontend, last_scan |-> JStr(L_date)]
  /\ integrations' = NoReport
  /\ themes' = NoReport
  /\ frontend' = NoReport
  /\ io' = NoIo
  /\ UNCHANGED <<storage, fs, order, writes>>

\* except Exception: raise UpdateFailed (1204-1206)
UpdateFailed(cache) ==
  /\ pc' = "idle"
  /\ result' = "UpdateFailed"
  /\ hacs_repositories' = cache
  /\ integrations' = NoReport
  /\ themes' = NoReport
  /\ frontend' = NoReport
  /\ io' = NoIo
  /\ UNCHANGED <<storage, fs, order, data, writes>>

\* integrations = await self.scanner.scan_custom_integrations() (1186)
ScanIntegrations ==
  /\ pc = "integrations"
  /\ LET done(r) ==
           IF r.exc THEN UpdateFailed(r.cache)
           ELSE /\ integrations' = r.report
                /\ hacs_repositories' = r.cache
                /\ pc' = "themes"
                /\ UNCHANGED <<storage, fs, order, themes, frontend, io, data, result, writes>>
     IN done(ScanCustomIntegrations(hacs_repositories, storage, fs))

\* themes = await self.scanner.scan_custom_themes() (1190)
ScanThemes ==
  /\ pc = "themes"
  /\ LET done(r) ==
           IF r.exc THEN UpdateFailed(r.cache)
           ELSE /\ themes' = r.report
                /\ io' = [io EXCEPT !.themes = r.io]
                /\ hacs_repositories' = r.cache
                /\ pc' = "frontend"
                /\ UNCHANGED <<storage, fs, order, integrations, frontend, data, result, writes>>
     IN done(ScanCustomThemes(hacs_repositories, storage, fs, order))

\* frontend = await self.scanner.scan_custom_frontend() (1194)
ScanFrontend ==
  /\ pc = "frontend"
  /\ LET done(r) ==
           IF r.exc THEN UpdateFailed(r.cache)
           ELSE /\ frontend' = r.report
                /\ io' = [io EXCEPT !.frontend = r.io]
                /\ hacs_repositories' = r.cache
                /\ pc' = "return"
                /\ UNCHANGED <<storage, fs, order, integrations, themes, data, result, writes>>
     IN done(ScanCustomFrontend(hacs_repositories, storage, fs, order))

\* a variant of ReturnReport that saves the cached repository data to its store
ReturnReportSaves ==
  /\ pc = "return"
  /\ data' = [valid |-> TRUE, integrations |-> integrations, themes |-> themes,
              frontend |-> frontend, last_scan |-> JStr(L_date)]
  /\ result' = "report"
  /\ pc' = "idle"
  /\ integrations' = NoReport
  /\ themes' = NoReport
  /\ frontend' = NoReport
  /\ storage' = [storage EXCEPT !["hacs.repositories"] = Doc(hacs_repositories.val)]
  /\ UNCHANGED <<fs, order, hacs_repositories, io, writes>>

\* return {...} (1198-1203): the coordinator keeps the report as its data
ReturnReport ==
  /\ pc = "return"
  /\ data' = [valid |-> TRUE, integrations |-> integrations, themes |-> themes,
              frontend |-> frontend,
              last_scan |-> JStr(L_date)]        \* dt_util.now().isoformat()
  /\ result' = "report"
  /\ pc' = "idle"
  /\ integrations' = NoReport
  /\ themes' = NoReport
  /\ frontend' = NoReport
  /\ UNCHANGED <<storage, fs, order, hacs_repositories, io, writes>>

Next ==
  \/ WriteStore
  \/ WriteFs
  \/ BeginUpdate
  \/ ScanIntegrations
  \/ ScanThemes
  \/ ScanFrontend
  \/ ReturnReport

Spec == Init /\ [][Next]_vars

\* a step of a started _async_update_data: each of its steps moves it to another place
Resume ==
  /\ pc # "idle"
  /\ pc' \in {"idle", "integrations", "themes", "frontend", "return"}
  /\ pc' # pc

\* the event loop resumes a started _async_update_data after every await, until it
\* returns or raises
LiveSpec == Spec /\ WF_pc(Resume)

\* _async_update_data is called, as BeginUpdate; the contents of the stores at the start
\* of the cycle are kept with the log, for the properties of concurrent writes
BeginUpdateObserved ==
  /\ pc = "idle"
  /\ pc' = "integrations"
  /\ io' = [themes |-> <<>>, frontend |-> <<>>, began |-> storage]
  /\ UNCHANGED <<storage, fs, order, hacs_repositories, integrations, themes, frontend,
                 data, result, writes>>

\* another process rewrites a file of .storage while _async_update_data is suspended at
\* the await between two of its scans (1186-1194)
WriteStoreDuringScan ==
  /\ pc \in {"themes", "frontend"}
  /\ writes < MaxWrites
  /\ \E n \in SeqToSet(StorageNames) : \E i \in 1..Len(Contents[n]) :
       storage' = [storage EXCEPT ![n] = Contents[n][i]]
  /\ writes' = writes + 1
  /\ UNCHANGED <<fs, order, hacs_repositories, pc, integrations, themes, frontend,
                 io, data, result>>

NextRacing ==
  \/ WriteStore
  \/ WriteFs
  \/ BeginUpdateObserved
  \/ WriteStoreDuringScan
  \/ ScanIntegrations
  \/ ScanThemes
  \/ ScanFrontend
  \/ ReturnReport

\* the scan cycle with the stores written while it runs
RacingSpec == Init /\ [][NextRacing]_vars

\* the scanner is constructed while the package-manager metadata store is absent,
\* cannot be read, or holds what is not a JSON object
InitUnavailable ==
  /\ \E f \in {FAbsent, FUnreadable, FBadJson, FBadUtf8, NotAnObject} :
       storage = [n \in SeqToSet(StorageNames) |->
                    IF n = "hacs.repositories" THEN f ELSE Contents[n][1]]
  /\ fs = Trees[1]
  /\ order \in {"fwd", "rev"}
  /\ hacs_repositories = [loaded |-> FALSE, val |-> JNull]
  /\ pc = "idle"
  /\ integrations = NoReport
  /\ themes = NoReport
  /\ frontend = NoReport
  /\ io = NoIo
  /\ data = NoData
  /\ result = "none"
  /\ writes = 0

\* the scan cycle of a scanner constructed without a usable metadata store
UnavailableSpec == InitUnavailable /\ [][Next]_vars

-----------------------------------------------------------------------------
(* What the properties are stated with                                     *)

Member(x, s) == \E i \in 1..Len(s) : s[i] = x

\* the parsed document of a file of .storage, null when there is none
Document(f) == IF f.k = "json" THEN f.v ELSE JNull

\* the value under key of a JSON value, null when there is none
At(j, key) == IF IsMap(j) /\ HasKey(j, key) THEN JGet(j, key, JNull) ELSE JNull

\* the elements of a JSON list, none for any other value
Items(j) == IF IsList(j) THEN j.v ELSE <<>>

\* the strings held under key at any depth of the mappings and lists of j
RECURSIVE ValuesOfKey(_, _)
ValuesOfKey(j, key) ==
  CASE IsMap(j) ->
         UNION {(IF j.v[i][1] = key /\ IsStr(j.v[i][2]) THEN {j.v[i][2].v} ELSE {})
                  \cup ValuesOfKey(j.v[i][2], key) : i \in 1..Len(j.v)}
    [] IsList(j) -> UNION {ValuesOfKey(j.v[i], key) : i \in 1..Len(j.v)}
    [] OTHER -> {}

\* the strings held directly in a mapping that is the value of key, at any depth of j
RECURSIVE ObjectValuesOfKey(_, _)
ObjectValuesOfKey(j, key) ==
  CASE IsMap(j) ->
         UNION {(IF j.v[i][1] = key /\ IsMap(j.v[i][2])
                 THEN {j.v[i][2].v[k][2].v :
                         k \in {m \in 1..Len(j.v[i][2].v) : IsStr(j.v[i][2].v[m][2])}}
                 ELSE {})
                  \cup ObjectValuesOfKey(j.v[i][2], key) : i \in 1..Len(j.v)}
    [] IsList(j) -> UNION {ObjectValuesOfKey(j.v[i], key) : i \in 1..Len(j.v)}
    [] OTHER -> {}

\* the stores named with the dashboard prefix, and those of them that define dashboards
LovelaceNames == {n \in SeqToSet(StorageNames) : StartsWith(NameChars[n], L_lovelace)}
DashboardNames == LovelaceNames \ {"lovelace_resources"}
CardNames == LovelaceNames \ FrontendSkipped

\* a store file that is absent, cannot be read, or does not hold a JSON object
Malformed(f) == f.k \in {"unreadable", "badjson", "badutf8"} \/ (f.k = "json" /\ ~IsMap(f.v))
AbsentOrMalformed(f) == f.k = "absent" \/ Malformed(f)

\* the inventories of the running scan cycle
IntegrationInventory == InstalledIntegrations(hacs_repositories.val, fs)
ThemeInventory       == InstalledThemes(hacs_repositories.val, fs, order)
FrontendInventory    == InstalledFrontend(hacs_repositories.val, fs, order)

\* the domain values of the entries of the entries registry
EntryDomains ==
  LET domains(entries) ==
        {At(entries[i], "domain").v :
           i \in {j \in 1..Len(entries) : IsStr(At(entries[j], "domain"))}}
  IN domains(Items(At(At(Document(storage["core.config_entries"]), "data"), "entries")))

\* the default theme, the themes the users selected, and the themes of the dashboards
DefaultThemeValues ==
  LET value(t) == IF IsStr(t) THEN {t.v} ELSE {}
  IN value(At(At(At(Document(storage["core.config"]), "data"), "frontend"), "theme"))

UserThemeValues ==
  LET selected(users) ==
        {At(At(users[i], "user_data"), "theme").v :
           i \in {j \in 1..Len(users) : IsStr(At(At(users[j], "user_data"), "theme"))}}
  IN selected(Items(At(At(Document(storage["auth"]), "data"), "users")))

DashboardThemeValues ==
  UNION {ValuesOfKey(Document(storage[n]), "theme") : n \in LovelaceNames}

DashboardThemeObjectValues ==
  UNION {ObjectValuesOfKey(Document(storage[n]), "theme") : n \in LovelaceNames}

\* the "type" values of the stores that hold cards
DashboardTypeValues ==
  UNION {ValuesOfKey(Document(storage[n]), "type") : n \in CardNames}

\* some identifier equals some value, ignoring case
MatchesAny(ids, values) == \E id \in ids : \E v \in values : Lower(id) = Lower(v)

\* the report splits the inventory: the counts add up and every artifact is in
\* exactly one of the two sequences
IsPartition(report, inventory) ==
  /\ report.total = Len(report.used) + Len(report.unused)
  /\ report.total = Len(inventory)
  /\ \A i \in 1..Len(inventory) :
       Member(inventory[i], report.used) # Member(inventory[i], report.unused)
  /\ \A i \in 1..Len(report.used) : Member(report.used[i], inventory)
  /\ \A i \in 1..Len(report.unused) : Member(report.unused[i], inventory)

CountsAddUp(report) == report.total = Len(report.used) + Len(report.unused)

\* the integrations of the inventory are used exactly when their domain is in domains
ClassifiedByDomains(inventory, report, domains) ==
  \A i \in 1..Len(inventory) :
    /\ Member(inventory[i], report.used) <=> inventory[i].domain \in domains
    /\ Member(inventory[i], report.unused) <=> inventory[i].domain \notin domains

UsedDomains(report) == {report.used[i].domain : i \in 1..Len(report.used)}

-----------------------------------------------------------------------------
(* Properties of the reports                                               *)

\* C1: in every scan, the report of each of the three kinds has
\* total = len(used) + len(unused), and every artifact of the inventory of that kind is
\* in exactly one of its used and unused sequences.
C1_ReportsPartitionInventories ==
  /\ pc \in {"themes", "frontend", "return"} => IsPartition(integrations, IntegrationInventory)
  /\ pc \in {"frontend", "return"} => IsPartition(themes, ThemeInventory)
  /\ pc = "return" => IsPartition(frontend, FrontendInventory)
  /\ data.valid => /\ CountsAddUp(data.integrations)
                   /\ CountsAddUp(data.themes)
                   /\ CountsAddUp(data.frontend)

\* a scan cycle whose three reports each hold a used and an unused artifact
C1_Witness ==
  /\ pc = "return"
  /\ Len(integrations.used) > 0 /\ Len(integrations.unused) > 0
  /\ Len(themes.used) > 0 /\ Len(themes.unused) > 0
  /\ Len(frontend.used) > 0 /\ Len(frontend.unused) > 0

\* C2, as the specification states it: an installed integration is classified used if
\* and only if its domain is among the domain values of the entries of the entries
\* registry, for every domain string.
C2_UsedIffDomainRecorded ==
  pc = "themes" => ClassifiedByDomains(IntegrationInventory, integrations, EntryDomains)

\* C2, amended: an installed integration is classified used if and only if its domain is
\* not "hacs" and is among the domain values of the entries of the entries registry.
C2_UsedIffDomainRecordedAndNotHacs ==
  pc = "themes" =>
    ClassifiedByDomains(IntegrationInventory, integrations, EntryDomains \ {L_hacs})

\* the registry records the domain "hacs", the integration of that domain is reported
\* unused, and another recorded integration is reported used
C2_Witness ==
  /\ pc = "themes"
  /\ L_hacs \in EntryDomains
  /\ \E i \in 1..Len(integrations.unused) : integrations.unused[i].domain = L_hacs
  /\ \E i \in 1..Len(integrations.used) : integrations.used[i].domain \in EntryDomains

\* C3: an installed integration whose domain is absent from the entries registry is
\* classified unused, whatever files are on disk and whatever the other stores hold:
\* the classification is the same for every directory tree and for every content of the
\* core configuration, user, resource and dashboard stores.
C3_AbsentDomainIsUnused ==
  pc = "themes" =>
    /\ \A i \in 1..Len(IntegrationInventory) :
         IntegrationInventory[i].domain \notin EntryDomains
           => /\ Member(IntegrationInventory[i], integrations.unused)
              /\ ~Member(IntegrationInventory[i], integrations.used)
    /\ \A t \in 1..Len(Trees) :
         UsedDomains(ScanCustomIntegrations(hacs_repositories, storage, Trees[t]).report)
           = UsedDomains(integrations)
    /\ \A n \in LovelaceNames \cup {"core.config", "auth"} : \A c \in 1..Len(Contents[n]) :
         UsedDomains(ScanCustomIntegrations(
                       hacs_repositories, [storage EXCEPT ![n] = Contents[n][c]], fs).report)
           = UsedDomains(integrations)

\* an integration present on disk, with themes and cards in the dashboards, is reported
\* unused because the registry does not record its domain
C3_Witness ==
  /\ pc = "themes"
  /\ N_alpha \notin EntryDomains
  /\ \E i \in 1..Len(integrations.unused) : integrations.unused[i].domain = N_alpha
  /\ IsDir(fs, N_cc_alpha)
  /\ DashboardTypeValues # {}

\* what C4 says of resource i of the inventory, whose usage check logged log
UnregisteredIsUnusedUnread(resource, report, log) ==
  IsFrontendResourceRegistered(storage, resource.name, resource.path) = "F"
    => /\ Member(resource, report.unused)
       /\ ~Member(resource, report.used)
       /\ log.scripts = <<>>
       /\ \A k \in 1..Len(log.reads) : log.reads[k] = "lovelace_resources"

\* C4: a frontend resource the registration gate rejects is classified unused, and its
\* usage check reads no script file and no dashboard store.
C4_UnregisteredIsUnusedUnread ==
  pc = "return" =>
    \A i \in 1..Len(FrontendInventory) :
      UnregisteredIsUnusedUnread(FrontendInventory[i], frontend, io.frontend[i])

\* a resource reported unused for want of a registration, although its script defines an
\* element and a dashboard holds a card of that element's type
C4_Witness ==
  /\ pc = "return"
  /\ \E i \in 1..Len(FrontendInventory) :
       /\ IsFrontendResourceRegistered(storage, FrontendInventory[i].name,
                                       FrontendInventory[i].path) = "F"
       /\ CheckRegisteredResource(storage, fs, FrontendInventory[i], order).res = "T"
       /\ ResourceScripts(fs, FrontendInventory[i]) # <<>>
       /\ Member(FrontendInventory[i], frontend.unused)

\* no "type" value of the stores that hold cards matches an identifier of the resource
Unreferenced(ids) ==
  \A i \in 1..Len(ids) : \A v \in DashboardTypeValues : ~TypeMatches(v, ids[i])

RegisteredAloneIsUnused(resource, report) ==
  /\ IsFrontendResourceRegistered(storage, resource.name, resource.path) = "T"
  /\ Unreferenced(ResourceIdentifiers(fs, resource, order))
  => Member(resource, report.unused) /\ ~Member(resource, report.used)

\* C5: a frontend resource that passes the registration gate, and whose extracted or
\* fallback identifiers match no "type" value of any dashboard store, is classified
\* unused.
C5_RegisteredAloneIsUnused ==
  pc = "return" =>
    \A i \in 1..Len(FrontendInventory) : RegisteredAloneIsUnused(FrontendInventory[i], frontend)

\* a registered resource no dashboard refers to, reported unused
C5_Witness ==
  /\ pc = "return"
  /\ DashboardTypeValues # {}
  /\ \E i \in 1..Len(FrontendInventory) :
       /\ IsFrontendResourceRegistered(storage, FrontendInventory[i].name,
                                       FrontendInventory[i].path) = "T"
       /\ Unreferenced(ResourceIdentifiers(fs, FrontendInventory[i], order))
       /\ Member(FrontendInventory[i], frontend.unused)

\* the identifiers of a theme of the inventory
IdentifiersOf(theme) == SeqToSet(ThemeIdentifiers(fs, theme))

\* C6: a theme one of whose identifiers equals, ignoring case, the string value of a
\* "theme" key held at any depth of the mappings and lists of a dashboard store is
\* classified used.
C6_ThemeKeyAtAnyDepthIsUsed ==
  pc = "frontend" =>
    \A i \in 1..Len(ThemeInventory) :
      MatchesAny(IdentifiersOf(ThemeInventory[i]), DashboardThemeValues)
        => Member(ThemeInventory[i], themes.used)

\* C7, as the specification states it: a theme is classified used only if one of its
\* identifiers equals, ignoring case, the default theme, a theme a user selected, or the
\* value of a "theme" key of a dashboard store.
C7_UsedOnlyByThemeValue ==
  pc = "frontend" =>
    \A i \in 1..Len(themes.used) :
      MatchesAny(IdentifiersOf(themes.used[i]),
                 DefaultThemeValues \cup UserThemeValues \cup DashboardThemeValues)

\* C7, amended: a theme is classified used only if one of its identifiers equals,
\* ignoring case, the default theme, a theme a user selected, the value of a "theme" key
\* of a dashboard store, or a string held directly in a mapping that is the value of a
\* "theme" key of a dashboard store.
C7_UsedOnlyByThemeValueOrObject ==
  pc = "frontend" =>
    \A i \in 1..Len(themes.used) :
      MatchesAny(IdentifiersOf(themes.used[i]),
                 DefaultThemeValues \cup UserThemeValues \cup DashboardThemeValues
                   \cup DashboardThemeObjectValues)

\* a theme reported used through a theme object alone
C7_Witness ==
  /\ pc = "frontend"
  /\ \E i \in 1..Len(themes.used) :
       /\ MatchesAny(IdentifiersOf(themes.used[i]), DashboardThemeObjectValues)
       /\ ~MatchesAny(IdentifiersOf(themes.used[i]),
                      DefaultThemeValues \cup UserThemeValues \cup DashboardThemeValues)

\* C8: _load_storage_file returns an empty mapping, and raises nothing, for a store file
\* that is absent, cannot be read, or holds what is not JSON or is not a JSON object.
C8_LoadToleratesMalformedStore ==
  \A n \in SeqToSet(StorageNames) :
    AbsentOrMalformed(storage[n])
      => /\ ~LoadStorageFile(storage[n]).exc
         /\ IsMap(LoadStorageFile(storage[n]).val)
         /\ LoadStorageFile(storage[n]).val.v = <<>>

\* two scans end the same way: both fail, or both return the same report
SameOutcome(a, b) == a.exc = b.exc /\ (~a.exc => a.report = b.report)

\* the theme and frontend scans end in st as they do in the current stores
ScansUnchangedBy(st) ==
  /\ SameOutcome(ScanCustomThemes(hacs_repositories, st, fs, order),
                 ScanCustomThemes(hacs_repositories, storage, fs, order))
  /\ SameOutcome(ScanCustomFrontend(hacs_repositories, st, fs, order),
                 ScanCustomFrontend(hacs_repositories, storage, fs, order))

\* C9: a malformed dashboard file changes nothing: the theme scan and the frontend scan
\* end with the report, or the failure, they end with when the file is removed.
C9_MalformedDashboardIsIgnored ==
  \A n \in DashboardNames :
    Malformed(storage[n]) => ScansUnchangedBy([storage EXCEPT ![n] = FAbsent])

\* a scan cycle that classified themes and resources from one dashboard file while
\* another was malformed
C9_Witness ==
  /\ pc = "return"
  /\ \E n \in DashboardNames : Malformed(storage[n])
  /\ Len(themes.used) > 0 /\ Len(themes.unused) > 0
  /\ Len(frontend.used) > 0 /\ Len(frontend.unused) > 0

\* C10: a failure met while extracting the identifiers of one artifact, or reading files
\* or stores for it, is caught: once the inventory is loaded, the theme scan and the
\* frontend scan return a report.
C10_ArtifactFailureIsContained ==
  /\ pc = "themes" => ~ScanCustomThemes(hacs_repositories, storage, fs, order).exc
  /\ pc = "frontend" => ~ScanCustomFrontend(hacs_repositories, storage, fs, order).exc

-----------------------------------------------------------------------------
(* Properties of the scan cycle                                            *)

\* the sub-scan the cycle is about to run raises
SubScanRaises ==
  \/ pc = "integrations" /\ ScanCustomIntegrations(hacs_repositories, storage, fs).exc
  \/ pc = "themes" /\ ScanCustomThemes(hacs_repositories, storage, fs, order).exc
  \/ pc = "frontend" /\ ScanCustomFrontend(hacs_repositories, storage, fs, order).exc

\* C11: a scan cycle ends in one of two ways: it returns a report that holds the reports
\* of the three sub-scans and the time of the scan, or it raises UpdateFailed and
\* publishes nothing; a sub-scan that raises always ends the cycle with UpdateFailed.
C11_ReportOrWrappedFailure ==
  [][ /\ (pc # "idle" /\ pc' = "idle") =>
           \/ /\ pc = "return"
              /\ result' = "report"
              /\ data'.valid
              /\ data'.integrations = integrations
              /\ data'.themes = themes
              /\ data'.frontend = frontend
              /\ IsStr(data'.last_scan)
           \/ /\ result' = "UpdateFailed"
              /\ data' = data
      /\ SubScanRaises => (pc' = "idle" /\ result' = "UpdateFailed")
      /\ (pc = "idle" /\ pc' = "idle") => (result' = result /\ data' = data) ]_vars

\* a cycle ended with UpdateFailed after an earlier cycle returned a report
C11_Witness == pc = "idle" /\ result = "UpdateFailed" /\ data.valid

\* C12: every started scan cycle eventually reaches a terminal state: it has returned a
\* report or raised UpdateFailed, and it is in no intermediate step.
C12_ScanTerminates ==
  (pc # "idle") ~> (pc = "idle" /\ result \in {"report", "UpdateFailed"})

\* a cycle that ran over a configuration changed since the start has ended
C12_Witness == pc = "idle" /\ result \in {"report", "UpdateFailed"} /\ writes > 0

\* the partitions the usage resolver gives for the inventories of the cycle when it runs
\* on the configuration as it is now, its sets iterating in order o
ResolvedIntegrations ==
  LET resolved(inventory, configured) ==
        Report(inventory, [i \in 1..Len(inventory) |->
                             IntegrationIsUsed(inventory[i], configured.val)])
  IN resolved(IntegrationInventory, GetConfiguredIntegrations(storage))

ResolvedThemes ==
  LET resolved(inventory) ==
        Report(inventory, [i \in 1..Len(inventory) |->
                             IsThemeUsed(storage, fs, inventory[i]).res = "T"])
  IN resolved(ThemeInventory)

ResolvedFrontend(o) ==
  LET resolved(inventory) ==
        Report(inventory, [i \in 1..Len(inventory) |->
                             IsFrontendResourceUsed(storage, fs, inventory[i], o).res = "T"])
  IN resolved(FrontendInventory)

\* C13: running the usage resolver again on the same inventory, with the stores and the
\* configuration directory unchanged, gives the used and unused sequences the cycle
\* has, for each of the three kinds and whatever the iteration order of a set is.
C13_ResolverIsIdempotent ==
  pc = "return" =>
    /\ ResolvedIntegrations = integrations
    /\ ResolvedThemes = themes
    /\ \A o \in {"fwd", "rev"} : ResolvedFrontend(o) = frontend

\* a cycle that classified artifacts of the three kinds, one of them a resource checked
\* under several identifiers
C13_Witness ==
  /\ pc = "return"
  /\ Len(integrations.used) > 0
  /\ Len(themes.used) > 0
  /\ \E i \in 1..Len(frontend.used) :
       Len(ResourceIdentifiers(fs, frontend.used[i], order)) > 1

\* C14: no step of a scan cycle, from its start to its return or its failure, changes a
\* file of .storage or the configuration directory.
C14_ScanWritesNothing ==
  [][ (pc # "idle" \/ pc' # "idle") => (storage' = storage /\ fs' = fs) ]_vars

\* a cycle has ended, with a report or with a failure, over a configuration that holds
\* a malformed store and files
C14_Witness ==
  /\ pc = "idle"
  /\ result # "none"
  /\ fs # <<>>
  /\ \E n \in SeqToSet(StorageNames) : Malformed(storage[n])

-----------------------------------------------------------------------------
(* Properties of the extraction of identifiers and of the inventories      *)

\* the key of a line of a definition file when the line is a top-level key: it is not
\* indented, it is no comment and no document separator; <<>> for any other line
TopLevelKey(line) ==
  LET key(text) ==
        IF StartsWith(text, <<"#">>) \/ StartsWith(text, <<"-", "-", "-">>)
           \/ ~HasChar(text, ":")
        THEN <<>>
        ELSE Strip(Strip(SplitFirst(text, ":"), Whitespace), {"\"", "'"})
  IN IF line = <<>> \/ line[1] \in {" ", "\t"} THEN <<>> ELSE key(Strip(line, Whitespace))

\* a key that follows the conventions of style variables
IsStyleVariable(key) ==
  \/ StartsWith(key, <<"-">>)
  \/ StartsWith(key, <<"p", "a", "p", "e", "r", "-">>)
  \/ StartsWith(key, <<"h", "a", "-">>)
  \/ EndsWith(key, <<"-", "c", "o", "l", "o", "r">>)

\* the theme definitions of the configuration directory, and the definition files of one
ThemeDefinitions ==
  {fs[i].path : i \in {j \in 1..Len(fs) : /\ StartsWith(fs[j].path, <<"t", "h", "e", "m", "e", "s", "/">>)
                                          /\ \/ fs[j].kind = "dir"
                                             \/ Suffix(fs[j].path) \in {L_yaml, L_yml}}}

DefinitionFiles(p) ==
  IF IsFile(fs, p) THEN <<p>> ELSE Glob(fs, p, L_yaml) \o Glob(fs, p, L_yml)

Readable(p) == \A i \in 1..Len(DefinitionFiles(p)) : ~NodeAt(fs, DefinitionFiles(p)[i]).bad

\* the top-level keys of the definition files of p that are no style variables (and,
\* when onlyShort, are shorter than 50 characters), each once, in first-seen order
ThemeKeys(p, onlyShort) ==
  LET keys(lines) ==
        SelectSeq([i \in 1..Len(lines) |-> TopLevelKey(lines[i])],
                  LAMBDA k : k # <<>> /\ ~IsStyleVariable(k) /\ (onlyShort => Len(k) < 50))
      all(files) ==
        Dedup(Flatten([i \in 1..Len(files) |-> keys(NodeAt(fs, files[i]).lines)]))
  IN all(DefinitionFiles(p))

MetadataEntries ==
  IF IsMap(hacs_repositories.val)
  THEN [i \in 1..Len(hacs_repositories.val.v) |-> hacs_repositories.val.v[i][2]]
  ELSE <<>>

\* the text under key of an entry, <<>> when there is none
TextAt(e, key) == IF IsStr(At(e, key)) THEN At(e, key).v ELSE <<>>

\* the domain of an integration entry: its own, or the one of its manifest
EntryDomain(e) ==
  IF TextAt(e, "domain") # <<>> THEN TextAt(e, "domain")
  ELSE TextAt(At(e, "repository_manifest"), "domain")

\* the entries of category cat whose installed flag is true, and those of them that
\* have an identifier (an integration needs a domain)
InstalledEntries(cat) ==
  SelectSeq(MetadataEntries,
            LAMBDA e : /\ IsStr(At(e, "category")) /\ At(e, "category").v = cat
                       /\ At(e, "installed").k = "bool" /\ At(e, "installed").v)

IdentifiedEntries(cat) ==
  SelectSeq(InstalledEntries(cat), LAMBDA e : cat = L_integration => EntryDomain(e) # <<>>)

\* the artifacts of a report that come from the package manager
PackageArtifacts(report) ==
  SelectSeq(report.used \o report.unused, LAMBDA a : a.hacs_status = L_installed)

\* artifact a was made from entry e
ComesFrom(a, e, cat) ==
  /\ a.hacs_repository = TextAt(e, "full_name")
  /\ cat = L_integration => a.domain = EntryDomain(e)

\* the package-manager artifacts of the report are those of the installed entries of
\* the category, one for each entry that has an identifier
FromInstalledEntries(report, cat) ==
  LET matched(artifacts, entries) ==
        /\ Len(artifacts) = Len(entries)
        /\ \A i \in 1..Len(artifacts) :
             \E j \in 1..Len(entries) : ComesFrom(artifacts[i], entries[j], cat)
        /\ \A j \in 1..Len(entries) :
             Cardinality({i \in 1..Len(artifacts) :
                            ComesFrom(artifacts[i], entries[j], cat)}) = 1
  IN matched(PackageArtifacts(report), IdentifiedEntries(cat))

\* C16: the package-manager artifacts of each report come from the metadata entries of
\* that kind whose installed flag is true, one artifact for each such entry that has an
\* identifier; entries that are not installed or of another category give none.
C16_InventoryFromInstalledEntries ==
  pc = "return" =>
    /\ FromInstalledEntries(integrations, L_integration)
    /\ FromInstalledEntries(themes, L_theme)
    /\ FromInstalledEntries(frontend, L_plugin)

\* a cycle reported artifacts of the three kinds from metadata that also holds an entry
\* that is not installed and an integration entry without a domain
C16_Witness ==
  /\ pc = "return"
  /\ \A r \in {integrations, themes, frontend} : Len(PackageArtifacts(r)) > 0
  /\ Len(IdentifiedEntries(L_integration)) < Len(InstalledEntries(L_integration))
  /\ \E i \in 1..Len(MetadataEntries) :
       At(MetadataEntries[i], "installed").k = "bool" /\ ~At(MetadataEntries[i], "installed").v

\* the artifacts found in an install root: the definition files and the directories
\* holding definition files that lie directly in themes/, and the directories that lie
\* directly in www/community/
ThemesOnDisk ==
  {p \in ThemeDefinitions : Len(Split(p, "/")) = 2 /\ DefinitionFiles(p) # <<>>}

ResourcesOnDisk ==
  {fs[i].path : i \in {j \in 1..Len(fs) :
                         /\ fs[j].kind = "dir"
                         /\ StartsWith(fs[j].path, L_www_community)
                         /\ Len(Split(fs[j].path, "/")) = 3}}

\* a package-manager artifact of the report covers the path p: it lies there, or the
\* name of p is its display name or the name of its repository, ignoring case
Covers(a, place, p) ==
  LET named(n) == \/ n = Lower(a.name)
                  \/ n = Lower(SplitLast(a.hacs_repository, "/"))
  IN a.hacs_status = L_installed /\ (place = p \/ named(Lower(Stem(p))))

\* every theme found on disk is covered by a package-manager artifact of the report or
\* is in the report with the status "manual"
ThemesSupplemented ==
  LET listed(all) ==
        \A p \in ThemesOnDisk :
          \E i \in 1..Len(all) :
            \/ Covers(all[i], all[i].file, p)
            \/ all[i].hacs_status = L_manual /\ all[i].file = p
  IN listed(themes.used \o themes.unused)

\* the same for the frontend resources
FrontendSupplemented ==
  LET listed(all) ==
        \A p \in ResourcesOnDisk :
          \E i \in 1..Len(all) :
            \/ Covers(all[i], all[i].path, p)
            \/ all[i].hacs_status = L_manual /\ all[i].path = p
  IN listed(frontend.used \o frontend.unused)

\* C17: after the package-manager entries, the theme scan and the frontend scan add
\* every artifact found in the install root that no entry covers, with the status
\* "manual"; the integration scan adds none.
C17_SupplementaryScanAddsManual ==
  pc = "return" =>
    /\ ThemesSupplemented
    /\ FrontendSupplemented
    /\ PackageArtifacts(integrations) = integrations.used \o integrations.unused

\* C18: in every report an integration has a domain and a theme has a display name, and
\* no frontend resource without a name is in a report: such an entry is skipped, it
\* is in neither sequence and is not counted.
C18_IdentifiersNonEmpty ==
  pc = "return" =>
    /\ \A i \in 1..Len(integrations.used \o integrations.unused) :
         (integrations.used \o integrations.unused)[i].domain # <<>>
    /\ \A i \in 1..Len(themes.used \o themes.unused) :
         (themes.used \o themes.unused)[i].name # <<>>
    /\ \A i \in 1..Len(frontend.used \o frontend.unused) :
         (frontend.used \o frontend.unused)[i].name # <<>>

\* C19: the metadata store is read at most once: a sub-scan that reads it leaves the
\* value cached, so that no later sub-scan reads it again, and a cached value is never
\* replaced.
C19_MetadataReadOnce ==
  [][ /\ (pc \in {"integrations", "themes", "frontend"} /\ ~hacs_repositories.loaded)
           => hacs_repositories'.loaded
      /\ hacs_repositories.loaded => hacs_repositories' = hacs_repositories ]_vars

\* the types one tier of the extraction finds in a script file: 1 the card registry,
\* 2 the element definitions, 3 the class declarations, 4 the naming conventions
TierTypes(tier, node, resource_name) ==
  CASE node.bad -> {}
    [] tier = 1 -> SeqToSet(QuotedMatches(node.js, "push"))
    [] tier = 2 -> SeqToSet(QuotedMatches(node.js, "define"))
    [] tier = 3 -> UNION {SeqToSet(ClassMatches(node.js, p)) : p \in 1..4}
    [] tier = 4 -> SeqToSet(NamingFallback(resource_name))

\* the types a tier finds over script files
TierTypesOver(tier, files, resource_name) ==
  UNION {TierTypes(tier, NodeAt(fs, files[i]), resource_name) : i \in 1..Len(files)}

\* the types of the first tier that finds any over the script files
FirstTierTypes(files, resource_name) ==
  LET finds(tier) == TierTypesOver(tier, files, resource_name) # {}
      first == CHOOSE tier \in 1..4 : finds(tier) /\ \A t \in 1..(tier - 1) : ~finds(t)
  IN IF \E tier \in 1..4 : finds(tier) THEN TierTypesOver(first, files, resource_name)
     ELSE {}

\* C20: the identifiers extracted for a frontend resource are those of one tier: the
\* first of registry, definition, class and naming convention that finds any over the
\* script files of the resource, however many these are.
C20_IdentifiersFromFirstTier ==
  pc = "return" =>
  \A i \in 1..Len(FrontendInventory) :
    LET files == ResourceScripts(fs, FrontendInventory[i])
        name  == FrontendInventory[i].name
    IN (name # <<>> /\ files # <<>>) =>
         SeqToSet(GetFrontendResourceTypes(
                    fs, ActualResourcePath(fs, name, FrontendInventory[i].path), name, order))
           = FirstTierTypes(files, name)

-----------------------------------------------------------------------------
(* Properties of the matching rules                                        *)

\* a "type" value or an identifier without its leading "custom:", and in lower case
\* without '-' and '_'
WithoutCustomPrefix(t) == IF StartsWith(t, L_custom) THEN DropPrefix(t, Len(L_custom)) ELSE t
WithoutSeparators(t) == RemoveChar(RemoveChar(Lower(t), "-"), "_")

\* the three rules by which a "type" value matches an identifier
MatchesByRule(value, id) ==
  \/ value = id
  \/ WithoutCustomPrefix(value) = WithoutCustomPrefix(id)
  \/ WithoutSeparators(value) = WithoutSeparators(id)

\* the identifiers checked for the resources of the inventory
CheckedIdentifiers ==
  UNION {SeqToSet(ResourceIdentifiers(fs, FrontendInventory[i], order)) :
           i \in 1..Len(FrontendInventory)}

\* C21: a "type" value matches an identifier exactly when the two are equal, equal
\* without a leading "custom:", or equal in lower case without '-' and '_'; and the
\* reference check of a dashboard store finds an identifier exactly when the value of a
\* "type" key at some depth of the store matches it.
C21_TypeMatchesByRule ==
  pc = "return" =>
    \A id \in CheckedIdentifiers :
      /\ \A v \in DashboardTypeValues : TypeMatches(v, id) <=> MatchesByRule(v, id)
      /\ \A n \in CardNames :
           FileExists(storage[n]) =>
             (TypeInLovelaceFile(storage[n], id) = "T"
                <=> \E v \in ValuesOfKey(Document(storage[n]), "type") : MatchesByRule(v, id))

\* the URLs of the items of the resource-registration store
RegisteredUrls ==
  LET urls(items) ==
        {At(items[i], "url").v : i \in {j \in 1..Len(items) : IsStr(At(items[j], "url"))}}
  IN urls(Items(At(At(Document(storage["lovelace_resources"]), "data"), "items")))

\* the resource segments of a URL: the segment that follows the external-file root, for a
\* URL rooted there, its query removed
ResourceSegments(url) ==
  LET segment(rest) == IF HasChar(rest, "/") THEN {SplitFirst(rest, "/")} ELSE {}
      rooted(clean) == IF StartsWith(clean, L_hacsfiles)
                       THEN segment(DropPrefix(clean, Len(L_hacsfiles))) ELSE {}
  IN rooted(SplitFirst(url, "?"))

\* the name of a resource, its lowercase form, and the forms with one of space,
\* underscore and dash put for another
NameForms(name) ==
  IF name = <<>> THEN {}
  ELSE {name, Lower(name),
        ReplaceChar(Lower(name), " ", "-"), ReplaceChar(Lower(name), " ", "_"),
        ReplaceChar(name, " ", "-"), ReplaceChar(name, " ", "_"),
        ReplaceChar(name, "_", "-"), ReplaceChar(name, "-", "_")}

\* the directory of a resource installed under www/community
InstallDirectory(path) ==
  IF StartsWith(path, L_www_community)
  THEN {SplitFirst(DropPrefix(path, Len(L_www_community)), "/")} \ {<<>>}
  ELSE {}

\* some registered URL has one of segments as its resource segment
RegisteredUnder(segments) ==
  \E u \in RegisteredUrls : ResourceSegments(u) \cap segments # {}

PassesGate(resource) ==
  IsFrontendResourceRegistered(storage, resource.name, resource.path) = "T"

\* C22, as the specification states it: a frontend resource passes the registration gate
\* exactly when some registered URL is rooted at /hacsfiles/ and has as its resource
\* segment the name of the resource, its lowercase form, or a form of it with spaces,
\* underscores and dashes interchanged.
C22_RegisteredByNameForm ==
  pc \in {"frontend", "return"} =>
    \A i \in 1..Len(FrontendInventory) :
      PassesGate(FrontendInventory[i])
        <=> RegisteredUnder(NameForms(FrontendInventory[i].name))

\* C22, amended: a frontend resource passes the registration gate exactly when some
\* registered URL is rooted at /hacsfiles/ and has as its resource segment a form of the
\* name of the resource or the name of the directory it is installed in under
\* www/community.
C22_RegisteredByNameFormOrDirectory ==
  pc \in {"frontend", "return"} =>
    \A i \in 1..Len(FrontendInventory) :
      PassesGate(FrontendInventory[i])
        <=> RegisteredUnder(NameForms(FrontendInventory[i].name)
                              \cup InstallDirectory(FrontendInventory[i].path))

\* a scan in which one resource passed the gate by a form of its name with a dash for
\* the underscore, one by the name of its directory alone, and the report shows both
C22_Witness ==
  /\ pc = "return"
  /\ frontend.total = 2
  /\ \E i \in 1..Len(FrontendInventory) :
       /\ PassesGate(FrontendInventory[i])
       /\ RegisteredUnder({ReplaceChar(FrontendInventory[i].name, "_", "-")})
       /\ ~RegisteredUnder({FrontendInventory[i].name, Lower(FrontendInventory[i].name)})
       /\ InstallDirectory(FrontendInventory[i].path) = {}
  /\ \E i \in 1..Len(FrontendInventory) :
       /\ PassesGate(FrontendInventory[i])
       /\ ~RegisteredUnder(NameForms(FrontendInventory[i].name))
       /\ RegisteredUnder(InstallDirectory(FrontendInventory[i].path))

\* the resource-registration store and the dashboard-listing store, and the other stores
\* named with the dashboard prefix
ListingStores == {"lovelace_resources", "lovelace_dashboards"}
ReferenceStores == LovelaceNames \ ListingStores

\* the reference check of an identifier ends the same whatever a store holds
IndependentOf(n, id) ==
  \A c \in 1..Len(Contents[n]) :
    CheckFrontendResourceUsage([storage EXCEPT ![n] = Contents[n][c]], id).res
      = CheckFrontendResourceUsage(storage, id).res

\* some "type" value of the store matches the identifier
TypeValueIn(n, id) ==
  \E v \in ValuesOfKey(Document(storage[n]), "type") : TypeMatches(v, id)

\* C23: the frontend reference check reads neither the resource-registration store nor
\* the dashboard-listing store, and ends the same whatever they hold; a match in any
\* other store named with the dashboard prefix makes it positive; and a resource is
\* reported used only if such a store holds a "type" value that matches one of its
\* identifiers.
C23_ListingStoresNeverScanned ==
  pc = "return" =>
    /\ \A id \in CheckedIdentifiers :
         /\ SeqToSet(CheckFrontendResourceUsage(storage, id).reads) \cap ListingStores = {}
         /\ \A n \in ListingStores : IndependentOf(n, id)
         /\ \A n \in ReferenceStores :
              FileExists(storage[n]) /\ TypeInLovelaceFile(storage[n], id) = "T"
                => CheckFrontendResourceUsage(storage, id).res = "T"
    /\ \A i \in 1..Len(frontend.used) :
         \E n \in ReferenceStores :
           \E id \in SeqToSet(ResourceIdentifiers(fs, frontend.used[i], order)) :
             TypeValueIn(n, id)

\* a registered resource reported unused while the dashboard-listing store holds a "type"
\* value that matches one of its identifiers, every other dashboard store having been
\* read for it
C23_Witness ==
  /\ pc = "return"
  /\ \E i \in 1..Len(FrontendInventory) :
       /\ PassesGate(FrontendInventory[i])
       /\ Member(FrontendInventory[i], frontend.unused)
       /\ \E id \in SeqToSet(ResourceIdentifiers(fs, FrontendInventory[i], order)) :
            TypeValueIn("lovelace_dashboards", id)
       /\ Member("lovelace", io.frontend[i].reads)
       /\ ~Member("lovelace_dashboards", io.frontend[i].reads)

\* a name in lower case with '_' taken for '-'
SeparatorNormalized(name) == ReplaceChar(Lower(name), "_", "-")

\* the names under which a package-manager theme of the report is known: its display
\* name, the name of the directory it is installed in, and the name of its repository
KnownNames(theme) ==
  LET directory(parts) ==
        IF Len(parts) > 1 /\ parts[1] = L_themes THEN {parts[2]} ELSE {}
  IN ({theme.name, SplitLast(theme.hacs_repository, "/")} \ {<<>>})
     \cup (IF theme.file = <<>> THEN {} ELSE directory(Parts(theme.file)))

\* the themes of a report, used and unused
Reported(report) == report.used \o report.unused

\* no theme the supplementary scan added bears, under the comparison same, a name a
\* package-manager theme of the report is known by
NoThemeTwice(all, same(_, _)) ==
  \A i \in 1..Len(all) : \A j \in 1..Len(all) :
    all[i].hacs_status = L_manual /\ all[j].hacs_status = L_installed
      => \A known \in KnownNames(all[j]) : ~same(all[i].name, known)

\* C24: the supplementary theme scan adds no directory or definition file whose name
\* equals, ignoring case and taking '-' and '_' for one another, the display name, the
\* install-directory name or the repository name of a package-manager theme already
\* listed.
C24_NoThemeTwice ==
  pc \in {"frontend", "return"} =>
    NoThemeTwice(Reported(themes),
                 LAMBDA a, b : SeparatorNormalized(a) = SeparatorNormalized(b))

-----------------------------------------------------------------------------
(* Properties of the order of the checks                                   *)

\* the checks of a usage resolution in their order: each identifier in turn against each
\* store in turn
Schedule(ids, stores) ==
  Flatten([i \in 1..Len(ids) |->
             [k \in 1..Len(stores) |-> [id |-> ids[i], store |-> stores[k]]]])

\* a short-circuiting OR over the checks of a schedule: the outcome, and the stores read
\* up to and including the first positive check
FirstPositive(checks, positive(_)) ==
  LET upTo(hits) ==
        [res   |-> IF hits = {} THEN "F" ELSE "T",
         reads |-> [k \in 1..(IF hits = {} THEN Len(checks)
                              ELSE CHOOSE h \in hits : \A g \in hits : h <= g) |->
                      checks[k].store]]
  IN upTo({k \in 1..Len(checks) : positive(checks[k])})

\* the check of a theme identifier against a store is positive
ThemeCheckPositive(check) ==
  CASE check.store = "core.config" -> MatchesAny({check.id}, DefaultThemeValues)
    [] check.store = "auth"        -> MatchesAny({check.id}, UserThemeValues)
    [] OTHER -> ThemeInLovelaceFile(storage[check.store], check.id) = "T"

\* the check of a resource identifier against a dashboard store is positive
TypeCheckPositive(check) == TypeInLovelaceFile(storage[check.store], check.id) = "T"

\* what the resolution of a theme comes to
ThemeResolution(theme) ==
  IF theme.name = <<>> THEN [res |-> "F", reads |-> <<>>]
  ELSE FirstPositive(Schedule(ThemeIdentifiers(fs, theme),
                              <<"core.config", "auth">> \o ThemeLovelaceFiles(storage)),
                     ThemeCheckPositive)

\* what the resolution of a frontend resource comes to: the checks follow the
\* registration gate, which ends the resolution when the resource does not pass it
ResourceResolution(resource) ==
  LET after(found) == [res |-> found.res, reads |-> <<"lovelace_resources">> \o found.reads]
  IN IF resource.name = <<>> THEN [res |-> "F", reads |-> <<>>]
     ELSE IF ~PassesGate(resource) THEN [res |-> "F", reads |-> <<"lovelace_resources">>]
     ELSE after(FirstPositive(Schedule(ResourceIdentifiers(fs, resource, order),
                                       FrontendLovelaceFiles(storage)),
                              TypeCheckPositive))

\* the report and the log of a kind agree with the resolution of artifact i
ResolvedInOrder(artifact, report, log, resolution) ==
  /\ log.reads = resolution.reads
  /\ Member(artifact, report.used) <=> resolution.res = "T"
  /\ Member(artifact, report.unused) <=> resolution.res = "F"

\* C25: the usage of an artifact is resolved by a short-circuiting OR over checks in a
\* fixed order: for a theme, each identifier in extraction order against the default
\* theme, the user profiles and the dashboard stores; for a frontend resource, after the
\* registration gate, each identifier against the dashboard stores. The stores read are
\* those of the checks up to and including the first positive one, and the artifact is
\* used exactly when a check is positive.
C25_FirstPositiveCheckWins ==
  /\ pc \in {"frontend", "return"} =>
       \A i \in 1..Len(ThemeInventory) :
         ResolvedInOrder(ThemeInventory[i], themes, io.themes[i],
                         ThemeResolution(ThemeInventory[i]))
  /\ pc = "return" =>
       \A i \in 1..Len(FrontendInventory) :
         ResolvedInOrder(FrontendInventory[i], frontend, io.frontend[i],
                         ResourceResolution(FrontendInventory[i]))

\* a scan in which a theme and a resource were found used before all their checks had
\* run, and another theme was found unused after all of its checks
C25_Witness ==
  /\ pc = "return"
  /\ \E i \in 1..Len(ThemeInventory) :
       /\ Member(ThemeInventory[i], themes.used)
       /\ Len(io.themes[i].reads)
            < Len(ThemeIdentifiers(fs, ThemeInventory[i])) * (2 + Len(ThemeLovelaceFiles(storage)))
       /\ Member("auth", io.themes[i].reads)
  /\ \E i \in 1..Len(ThemeInventory) :
       /\ Member(ThemeInventory[i], themes.unused)
       /\ Len(io.themes[i].reads) > 2
  /\ \E i \in 1..Len(FrontendInventory) :
       /\ Member(FrontendInventory[i], frontend.used)
       /\ Len(ResourceIdentifiers(fs, FrontendInventory[i], order)) > 1
       /\ Len(io.frontend[i].reads) < 1 + 2 * Len(FrontendLovelaceFiles(storage))

\* the three kinds, and the six orders the three scans can run in
Kinds == {"integrations", "themes", "frontend"}
ScanOrders == {p \in [1..3 -> Kinds] : \A i, j \in 1..3 : p[i] = p[j] => i = j}

\* the scan of a kind on the scanner with the given cache
ScanOf(kind, cache) ==
  CASE kind = "integrations" -> ScanCustomIntegrations(cache, storage, fs)
    [] kind = "themes"       -> ScanCustomThemes(cache, storage, fs, order)
    [] kind = "frontend"     -> ScanCustomFrontend(cache, storage, fs, order)

\* how the three scans end, by kind, when they run in the order p on the scanner as it
\* is: each fails, or returns a report
OutcomesInOrder(p) ==
  LET outcome(r) == [exc |-> r.exc, report |-> r.report]
      third(r1, r2, r3) ==
        [k \in Kinds |-> IF k = p[1] THEN outcome(r1)
                         ELSE IF k = p[2] THEN outcome(r2) ELSE outcome(r3)]
      second(r1, r2) == third(r1, r2, ScanOf(p[3], r2.cache))
      first(r1) == second(r1, ScanOf(p[2], r1.cache))
  IN first(ScanOf(p[1], hacs_repositories))

\* C26: the three scans are order-independent: run in any of the six orders on the same
\* scanner and the same stores, they end with the same three reports.
C26_ScansAreOrderIndependent ==
  pc = "integrations" =>
    LET same(outcomes) == \A p \in ScanOrders : OutcomesInOrder(p) = outcomes
    IN same(OutcomesInOrder(<<"integrations", "themes", "frontend">>))

\* a scanner that has not read the metadata store yet, on which the three scans return
\* reports that list artifacts
C26_Witness ==
  /\ pc = "integrations"
  /\ ~hacs_repositories.loaded
  /\ LET listed(outcomes) ==
           \A k \in Kinds : ~outcomes[k].exc /\ outcomes[k].report.total > 0
     IN listed(OutcomesInOrder(<<"frontend", "themes", "integrations">>))

-----------------------------------------------------------------------------
(* Properties of a scan cycle with concurrent writes                       *)

\* the three reports of the cycle are what the scans give against the stores st
ClassifiedAgainst(st) ==
  /\ integrations = ScanCustomIntegrations(hacs_repositories, st, fs).report
  /\ themes = ScanCustomThemes(hacs_repositories, st, fs, order).report
  /\ frontend = ScanCustomFrontend(hacs_repositories, st, fs, order).report

\* C27: within one scan cycle all artifacts are classified against the same contents of
\* each configuration store, also when a store is rewritten by another process while the
\* cycle is suspended between two reads: the three reports are those of one snapshot of
\* the stores, as they were when the cycle started or as they are when it ends.
C27_OneSnapshotPerCycle ==
  pc = "return" => ClassifiedAgainst(io.began) \/ ClassifiedAgainst(storage)

-----------------------------------------------------------------------------
(* Properties of the metadata cache                                        *)

\* the cache holds the empty mapping
CachedEmpty(cache) == cache.loaded /\ cache.val = JEmpty

\* a report lists no package-manager artifact
NoPackageArtifacts(report) ==
  \A i \in 1..Len(Reported(report)) :
    /\ "hacs_status" \in DOMAIN Reported(report)[i]
    /\ Reported(report)[i].hacs_status # L_installed

\* C28: a first load that finds the metadata store absent, unreadable or malformed
\* caches the empty mapping; from then on the cached value is never replaced and no
\* report lists a package-manager artifact, whatever the store holds later.
C28_EmptyMappingIsCached ==
  /\ [][ (/\ pc \in {"integrations", "themes", "frontend"}
          /\ ~hacs_repositories.loaded
          /\ AbsentOrMalformed(storage["hacs.repositories"]))
           => CachedEmpty(hacs_repositories') ]_vars
  /\ [][ CachedEmpty(hacs_repositories) => hacs_repositories' = hacs_repositories ]_vars
  /\ [](CachedEmpty(hacs_repositories)
          => \A r \in {integrations, themes, frontend, data.integrations, data.themes,
                       data.frontend} : NoPackageArtifacts(r))

-----------------------------------------------------------------------------
(* Properties of the errors met in a dashboard store                       *)

\* the search of the store file f for the identifier meets, before any match, a "type"
\* value that is not empty and not a string
MeetsNonStringType(f, id) ==
  LET inData(data_section) ==
        /\ IsMap(data_section)
        /\ LET first(inConfig) ==
                 \/ inConfig = "E"
                 \/ inConfig = "F" /\ CheckCustomTypeInLovelace(data_section, id) = "E"
           IN first(CheckCustomTypeInLovelace(JGet(data_section, "config", JEmpty), id))
      inFile(r) == r.exc = "none" /\ IsMap(r.val) /\ inData(JGet(r.val, "data", JEmpty))
  IN inFile(ReadJson(f))

\* what C29 says of the store n and the identifier id
NonStringTypeIsContained(n, id) ==
  MeetsNonStringType(storage[n], id) =>
    /\ TypeInLovelaceFile(storage[n], id) = "F"
    /\ CheckFrontendResourceUsage(storage, id).res
         = CheckFrontendResourceUsage([storage EXCEPT ![n] = FAbsent], id).res
    /\ CheckFrontendResourceUsage(storage, id).res \in {"T", "F"}
    /\ \A m \in ReferenceStores :
         FileExists(storage[m]) /\ TypeInLovelaceFile(storage[m], id) = "T"
           => CheckFrontendResourceUsage(storage, id).res = "T"

\* C29: a "type" value that is not empty and not a string, met in a dashboard store
\* before a match, is contained to that store: the store gives no match for the
\* identifier, the other dashboard stores decide the check as if the store were absent,
\* and the check raises nothing.
C29_NonStringTypeIsContained ==
  pc \in {"frontend", "return"} =>
    \A id \in CheckedIdentifiers : \A n \in ReferenceStores : NonStringTypeIsContained(n, id)

\* a registered resource reported unused: the dashboard that holds a card of its type
\* holds a card with a number for a type before it, and the next dashboard store was
\* searched all the same
C29_Witness ==
  /\ pc = "return"
  /\ storage["lovelace"] = DashBadType
  /\ \E i \in 1..Len(FrontendInventory) :
       /\ PassesGate(FrontendInventory[i])
       /\ Member(FrontendInventory[i], frontend.unused)
       /\ \E id \in SeqToSet(ResourceIdentifiers(fs, FrontendInventory[i], order)) :
            /\ MeetsNonStringType(storage["lovelace"], id)
            /\ TypeValueIn("lovelace", id)
       /\ \E k \in 1..(Len(io.frontend[i].reads) - 1) :
            /\ io.frontend[i].reads[k] = "lovelace"
            /\ io.frontend[i].reads[k + 1] = "lovelace.second"

-----------------------------------------------------------------------------
(* Properties of the sensors                                               *)

\* the fields an entry of unused_components may carry
AttributeFields == {"name", "domain", "installed_date", "version", "repository"}

\* what C30 says of the sensor with the given key
SensorAgreesWithReport(key) ==
  LET agrees(value, attributes, report) ==
        /\ value = Len(attributes.unused_components)
        /\ value = Len(report.unused)
        /\ attributes.total_components = attributes.used_components + value
        /\ \A i \in 1..Len(attributes.unused_components) :
             /\ DOMAIN attributes.unused_components[i] \subseteq AttributeFields
             /\ \A field \in DOMAIN attributes.unused_components[i] :
                  attributes.unused_components[i][field] = report.unused[i][field]
  IN agrees(NativeValue(key, data), ExtraStateAttributes(key, data), SensorData(key, data))

\* C30: after a successful scan the state of each sensor is the number of entries of its
\* unused_components attribute and the number of unused artifacts of its kind in the
\* report, total_components = used_components + state, and each entry of
\* unused_components carries only name, domain, installed_date, version and repository.
C30_SensorsAgreeWithReport ==
  data.valid => \A key \in SensorKeys : SensorAgreesWithReport(key)

\* the sensors after a scan that reported used and unused artifacts of the three kinds,
\* the unused ones with more fields than the attributes keep
C30_Witness ==
  /\ pc = "idle" /\ result = "report"
  /\ \A key \in SensorKeys :
       /\ NativeValue(key, data) > 0
       /\ ExtraStateAttributes(key, data).used_components > 0
       /\ \E i \in 1..NativeValue(key, data) :
            ~(DOMAIN SensorData(key, data).unused[i] \subseteq AttributeFields)

====
